---- MODULE Spec2Model ----
(***************************************************************************)
(* DD-AA model simulator (Grafico-IF).                                     *)
(*                                                                         *)
(* Several state machines share this module:                               *)
(*   SpecNav      the Streamlit page of app.py: session state, scenario    *)
(*                selector, Previous / Next buttons, reruns;               *)
(*   SpecFrames   solver.get_scenario_frames building its frame list, one  *)
(*                helper call per step, with the nested level records of   *)
(*                the base data held by reference;                         *)
(*   SpecEq       the DD-AA intersection solvers of model.py and charts.py;*)
(*   SpecDiagram  charts.build_complete_diagram on one step;               *)
(*   SpecCurves   model.get_curve_data: the sampled DD and AA curves;       *)
(*   SpecShifts   model.find_equilibrium called for two shift settings;     *)
(*   SpecLegacy   the legacy entry points solver.solve and                  *)
(*                solver.solve_equilibrium and the import the test of the   *)
(*                model module makes;                                       *)
(*   SpecInterp   the Transition Interpolator.                              *)
(*                                                                         *)
(* Numbers: the program computes in binary floating point; the model       *)
(* computes the same formulas exactly, in fixed-point integers whose unit  *)
(* is named at each definition.                                            *)
(***************************************************************************)
EXTENDS Integers, Sequences, FiniteSets, TLC

VARIABLES
    \* ---- app.py ----
    scenario,       \* st.session_state.scenario
    current_step,   \* st.session_state.current_step
    nav_pc,         \* "idle": page rendered, waiting for the user;
                    \* "rerun": st.rerun() requested, script about to run again
    rendered,       \* <<scenario, step>> of the last build_complete_diagram call
    last,           \* history: the last user action and the state it was taken in
    tour,           \* history: how many entries of AllPairs have been shown, in order
    streak,         \* history: the Next clicks delivered in a row since step 0
                    \* of the scenario was the current step; -1 once a
                    \* Previous has left a step other than 0 current
    builds,         \* history: the build_complete_diagram calls made since the
                    \* last user action was delivered, that action's own script
                    \* run included
    \* ---- solver.py ----
    fr_pc,          \* "idle": no call of get_scenario_frames in progress; "running"
    fr_index,       \* the scenario_index argument of the current (or last) call
    fr_fn,          \* the frames function get_scenario_frames dispatched to
    base,           \* the local `base` / `base_data` of the frames function
    frames,         \* the local list `frames`; nested level records held by address
    heap,           \* the dict objects of the call: address -> interest_levels,
                    \* exchange_levels or output_levels record
    appended,       \* history: each frame's values at the moment it was appended
    result,         \* what the last completed call returned to its caller
    \* ---- model.py / charts.py: the DD-AA intersection ----
    eq,             \* the last solver call: its function, arguments and returned point
    \* ---- charts.py: build_complete_diagram ----
    dg_pc,          \* "idle", then the position inside build_complete_diagram
    dg_step_data,   \* the caller's step_data dict, as it reads now
    dg_original,    \* history: step_data as it read when the call was made
    dg_step_index,  \* the step_index argument
    dg_changes,     \* the local `changes`: step_data["changes"] itself when that
                    \* key exists, a fresh empty dict otherwise
    dg_fig,         \* the figure built so far
    \* ---- model.py: get_curve_data ----
    curve_data,     \* the last get_curve_data call: its arguments and the dict returned
    \* ---- model.py: find_equilibrium, two calls ----
    shifted,        \* the arguments and results of two find_equilibrium calls
    \* ---- solver.py: legacy functions; tests ----
    legacy,         \* the last legacy call: its function, arguments and outcome
    \* ---- Transition Interpolator ----
    interp,         \* the last interpolation: source, target and the frames produced
    \* ---- model.py: simulate_shock ----
    sk_pc,          \* "idle", "loop" (inside the period loop), "returned"
    sk_args,        \* the arguments shock_type, magnitude, periods of the call
    sk_t,           \* the value the loop variable t takes in the next iteration
    results         \* the local dict `results`: five lists

navVars == <<scenario, current_step, nav_pc, rendered, last, tour, streak, builds>>

frameVars == <<fr_pc, fr_index, fr_fn, base, frames, heap, appended, result>>

eqVars == <<eq>>

diagVars == <<dg_pc, dg_step_data, dg_original, dg_step_index, dg_changes, dg_fig>>

curveVars == <<curve_data>>

shiftVars == <<shifted>>

legacyVars == <<legacy>>

interpVars == <<interp>>

shockVars == <<sk_pc, sk_args, sk_t, results>>

vars == <<navVars, frameVars, eqVars, diagVars, curveVars, shiftVars, legacyVars,
          interpVars, shockVars>>

\* What each machine leaves alone
notNav == <<frameVars, eqVars, diagVars, curveVars, shiftVars, legacyVars, interpVars,
    shockVars>>
notFrames == <<navVars, eqVars, diagVars, curveVars, shiftVars, legacyVars, interpVars,
    shockVars>>
notEq == <<navVars, frameVars, diagVars, curveVars, shiftVars, legacyVars, interpVars,
    shockVars>>
notDiag == <<navVars, frameVars, eqVars, curveVars, shiftVars, legacyVars, interpVars,
    shockVars>>
notCurves == <<navVars, frameVars, eqVars, diagVars, shiftVars, legacyVars, interpVars,
    shockVars>>
notShifts == <<navVars, frameVars, eqVars, diagVars, curveVars, legacyVars, interpVars,
    shockVars>>
notLegacy == <<navVars, frameVars, eqVars, diagVars, curveVars, shiftVars, interpVars,
    shockVars>>
notInterp == <<navVars, frameVars, eqVars, diagVars, curveVars, shiftVars, legacyVars,
    shockVars>>
notShock == <<navVars, frameVars, eqVars, diagVars, curveVars, shiftVars, legacyVars,
    interpVars>>

(***************************************************************************)
(* Python dictionaries are functions from keys to values.                  *)
(***************************************************************************)
EmptyDict == <<>>

\* dict.get(key, default)
Get(d, k, default) == IF k \in DOMAIN d THEN d[k] ELSE default

TruthyDefaultsTrue(d, k) == k \notin DOMAIN d \/ d[k] # 0
\* bool(dict.get(key)) for a key holding a number (True is the number 1)
Truthy(d, k) == k \in DOMAIN d /\ d[k] # 0

\* bool(dict)
NonEmpty(d) == DOMAIN d # {}

Min(a, b) == IF a <= b THEN a ELSE b
Max(a, b) == IF a >= b THEN a ELSE b

(***************************************************************************)
(* app.py: the scenario registry.  Shift magnitudes (lm_shift, aa_shift,   *)
(* dd_shift) are in tenths, so True (= 1) is 10, 0.5 is 5 and -1.5 is -15. *)
(* The description strings are display text only and are left out.         *)
(***************************************************************************)
Step(title, changes) == [title |-> title, changes |-> changes]

PermanentMonetaryExpansion ==
    << Step("Initial Equilibrium", EmptyDict),
       Step("Money Supply Increase", [lm_shift |-> 10, i_level |-> "i2"]),
       Step("UIP Response", [lm_shift |-> 10, i_level |-> "i2", aa_shift |-> 10]),
       Step("DD Adjustment",
            [lm_shift |-> 10, i_level |-> "i2", aa_shift |-> 10, dd_shift |-> 10]),
       Step("New Short-Run Equilibrium",
            [lm_shift |-> 10, i_level |-> "i2", aa_shift |-> 10, dd_shift |-> 10,
             equilibrium |-> "Y2"]),
       Step("Long-Run Adjustment",
            [lm_shift |-> 10, i_level |-> "i3", aa_shift |-> 20, dd_shift |-> 10,
             equilibrium |-> "Y3"]) >>

TemporaryMonetaryExpansion ==
    << Step("Initial Equilibrium", EmptyDict),
       Step("Money Supply Increase", [lm_shift |-> 10, i_level |-> "i2"]),
       Step("Limited UIP Response", [lm_shift |-> 10, i_level |-> "i2", aa_shift |-> 5]),
       Step("Short-Run Equilibrium",
            [lm_shift |-> 10, i_level |-> "i2", aa_shift |-> 5, equilibrium |-> "Y1.5"]),
       Step("Policy Reversal", EmptyDict) >>

PermanentFiscalExpansion ==
    << Step("Initial Equilibrium", EmptyDict),
       Step("Government Spending Increase", [dd_shift |-> 10]),
       Step("Short-Run Effects", [dd_shift |-> 10, i_level |-> "i2.5", s_level |-> "s0.5"]),
       Step("AA Response", [dd_shift |-> 10, aa_shift |-> -10, equilibrium |-> "Y1.3"]),
       Step("Long-Run Adjustment",
            [dd_shift |-> 10, aa_shift |-> -15, equilibrium |-> "Y1", s_level |-> "s0.3"]) >>

TemporaryFiscalExpansion ==
    << Step("Initial Equilibrium", EmptyDict),
       Step("Government Spending Increase", [dd_shift |-> 10]),
       Step("Short-Run Response", [dd_shift |-> 10, i_level |-> "i2", equilibrium |-> "Y1.2"]),
       Step("Policy Reversal", EmptyDict) >>

PermanentRealSectorShock ==
    << Step("Initial Equilibrium", EmptyDict),
       Step("Productivity Improvement", [y_potential |-> "Y2"]),
       Step("Investment Response",
            [y_potential |-> "Y2", i_level |-> "i2", investment_shift |-> 10]),
       Step("DD and AA Adjustments", [dd_shift |-> 10, aa_shift |-> 10, equilibrium |-> "Y2"]),
       Step("New Long-Run Equilibrium",
            [dd_shift |-> 10, aa_shift |-> 10, equilibrium |-> "Y2", y_potential |-> "Y2"]) >>

MonetaryContraction ==
    << Step("Initial Equilibrium", EmptyDict),
       Step("Money Supply Decrease", [lm_shift |-> -10, i_level |-> "i3"]),
       Step("UIP Response", [lm_shift |-> -10, i_level |-> "i3", aa_shift |-> -10]),
       Step("DD Adjustment",
            [lm_shift |-> -10, i_level |-> "i3", aa_shift |-> -10, dd_shift |-> -10]),
       Step("Short-Run Recession",
            [lm_shift |-> -10, i_level |-> "i3", aa_shift |-> -10, dd_shift |-> -10,
             equilibrium |-> "Y0"]),
       Step("Long-Run Adjustment",
            [lm_shift |-> -10, i_level |-> "i1", aa_shift |-> -5, dd_shift |-> -10,
             equilibrium |-> "Y1"]) >>

\* list(SCENARIOS.keys()), in insertion order
ScenarioKeys ==
    << "Permanent Monetary Expansion", "Temporary Monetary Expansion",
       "Permanent Fiscal Expansion", "Temporary Fiscal Expansion",
       "Permanent Real Sector Shock", "Monetary Contraction" >>

SCENARIOS ==
    [ k \in {ScenarioKeys[n] : n \in 1..Len(ScenarioKeys)} |->
        CASE k = "Permanent Monetary Expansion" -> PermanentMonetaryExpansion
          [] k = "Temporary Monetary Expansion" -> TemporaryMonetaryExpansion
          [] k = "Permanent Fiscal Expansion"   -> PermanentFiscalExpansion
          [] k = "Temporary Fiscal Expansion"   -> TemporaryFiscalExpansion
          [] k = "Permanent Real Sector Shock"  -> PermanentRealSectorShock
          [] k = "Monetary Contraction"         -> MonetaryContraction ]

\* len(steps); step lists are 0-based in the program, 1-based sequences here
NumSteps(sc) == Len(SCENARIOS[sc])

\* steps[current_step]
StepAt(sc, idx) == SCENARIOS[sc][idx + 1]

None == [none |-> TRUE]

(***************************************************************************)
(* app.py: the page.  A user action is handled in the script run it        *)
(* triggers; the handler writes the session state and calls st.rerun(),    *)
(* and the run that follows renders the new state.                         *)
(***************************************************************************)
\* max_steps = len(steps) - 1
max_steps(sc) == NumSteps(sc) - 1

\* disabled=(current_step == 0)
PreviousDisabled(step) == step = 0

\* disabled=(current_step >= max_steps)
NextDisabled(sc, step) == step >= max_steps(sc)

PreviousTargetSkips(step) == Max(0, step - 2)
\* st.session_state.current_step = max(0, current_step - 1)
PreviousTarget(step) == Max(0, step - 1)

NextTargetWrongWay(sc, step) == Max(0, step - 1)
\* st.session_state.current_step = min(max_steps, current_step + 1)
NextTarget(sc, step) == Min(max_steps(sc), step + 1)

SelectKeepsStep(sc, step, new_scenario) ==
    IF new_scenario # sc
    THEN [scenario |-> new_scenario, current_step |-> step, rerun |-> TRUE]
    ELSE [scenario |-> sc, current_step |-> step, rerun |-> FALSE]
\* if new_scenario != st.session_state.scenario: ... current_step = 0; st.rerun()
OnSelect(sc, step, new_scenario) ==
    IF new_scenario # sc
    THEN [scenario |-> new_scenario, current_step |-> 0, rerun |-> TRUE]
    ELSE [scenario |-> sc, current_step |-> step, rerun |-> FALSE]

\* Every (scenario, step index) the registry holds, scenario by scenario
RECURSIVE PairsFrom(_)
PairsFrom(n) ==
    IF n > Len(ScenarioKeys) THEN <<>>
    ELSE [i \in 1..NumSteps(ScenarioKeys[n]) |-> <<ScenarioKeys[n], i - 1>>]
         \o PairsFrom(n + 1)

AllPairs == PairsFrom(1)

Action(op) == [op |-> op, scenario |-> scenario, step |-> current_step]

NavInit ==
    /\ scenario = "Permanent Monetary Expansion"
    /\ current_step = 0
    /\ nav_pc = "idle"
    /\ rendered = <<"Permanent Monetary Expansion", 0>>
    /\ last = [op |-> "start", scenario |-> "Permanent Monetary Expansion", step |-> 0]
    /\ tour = 1
    /\ streak = 0
    /\ builds = 1

\* The user presses Previous.  A disabled button delivers no click.  A click
\* starts a script run: the page is built for the session state as it is
\* (build_complete_diagram, line 230), then st.button returns True and the
\* handler runs.
Retreat ==
    /\ UNCHANGED notNav
    /\ nav_pc = "idle"
    /\ last' = Action("retreat")
    /\ IF PreviousDisabled(current_step)
       THEN /\ builds' = 0
            /\ UNCHANGED <<scenario, current_step, nav_pc, rendered, tour, streak>>
       ELSE /\ builds' = 1
            /\ current_step' = PreviousTarget(current_step)
            /\ streak' = IF current_step' = 0 THEN 0 ELSE -1
            /\ nav_pc' = "rerun"
            /\ UNCHANGED <<scenario, rendered, tour>>

\* The user presses Next.
Advance ==
    /\ UNCHANGED notNav
    /\ nav_pc = "idle"
    /\ last' = Action("advance")
    /\ IF NextDisabled(scenario, current_step)
       THEN /\ builds' = 0
            /\ UNCHANGED <<scenario, current_step, nav_pc, rendered, tour, streak>>
       ELSE /\ builds' = 1
            /\ current_step' = NextTarget(scenario, current_step)
            /\ streak' = IF streak >= 0 THEN streak + 1 ELSE streak
            /\ nav_pc' = "rerun"
            /\ UNCHANGED <<scenario, rendered, tour>>

\* The user picks an entry of the scenario selector.  Picking the entry
\* already selected changes no widget value and starts no script run.
SelectScenario ==
    /\ UNCHANGED notNav
    /\ nav_pc = "idle"
    /\ \E new_scenario \in DOMAIN SCENARIOS :
         LET r == OnSelect(scenario, current_step, new_scenario) IN
           /\ last' = Action("select")
           /\ scenario' = r.scenario
           /\ current_step' = r.current_step
           /\ nav_pc' = IF r.rerun THEN "rerun" ELSE "idle"
           /\ builds' = IF r.rerun THEN 1 ELSE 0
           /\ streak' = IF r.rerun THEN 0 ELSE streak
           /\ UNCHANGED <<rendered, tour>>

\* The script run after st.rerun(): steps = SCENARIOS[current_scenario],
\* current_data = steps[current_step], build_complete_diagram(current_data, ...)
Rerun ==
    /\ UNCHANGED notNav
    /\ nav_pc = "rerun"
    /\ scenario \in DOMAIN SCENARIOS
    /\ current_step \in 0..(NumSteps(scenario) - 1)
    /\ rendered' = <<scenario, current_step>>
    /\ builds' = builds + 1
    /\ UNCHANGED streak
    /\ tour' = IF tour < Len(AllPairs) /\ AllPairs[tour + 1] = <<scenario, current_step>>
               THEN tour + 1 ELSE tour
    /\ nav_pc' = "idle"
    /\ UNCHANGED <<scenario, current_step, last>>

NavNext == Retreat \/ Advance \/ SelectScenario \/ Rerun


(***************************************************************************)
(* Navigation claims (SpecNav).                                            *)
(***************************************************************************)
\* C1: navigation saturates at both ends.  After an advance taken at index i of
\* a scenario with N steps the index is i when i = N-1 and i+1 otherwise; after
\* a retreat taken at index i it is 0 when i = 0 and i-1 otherwise.
C1_NavigationSaturates ==
    /\ last.op = "advance" =>
         current_step = IF last.step = NumSteps(last.scenario) - 1
                        THEN last.step ELSE last.step + 1
    /\ last.op = "retreat" =>
         current_step = IF last.step = 0 THEN 0 ELSE last.step - 1

\* Next has been pressed on the last step of a scenario, and the index stayed
C1_Witness ==
    /\ last.op = "advance"
    /\ last.step = NumSteps(last.scenario) - 1
    /\ current_step = last.step
    /\ scenario = last.scenario

\* C2: selecting a scenario other than the current one sets the step index to
\* 0, whatever the index was before.
C2_SelectResetsStep ==
    (last.op = "select" /\ last.scenario # scenario) => current_step = 0

\* A shorter scenario was selected while the last step of a longer one was shown
C2_Witness ==
    /\ last.op = "select"
    /\ last.scenario # scenario
    /\ last.step = NumSteps(last.scenario) - 1
    /\ NumSteps(last.scenario) > NumSteps(scenario)
    /\ current_step = 0

\* C3: every reachable state is a pair (scenario, index) with scenario a key of
\* SCENARIOS and 0 <= index < len(SCENARIOS[scenario]), so steps[current_step]
\* is in range; tour counts the pairs of AllPairs shown so far, and the witness
\* is the state in which every pair has been shown.
C3_StateInRange ==
    /\ scenario \in DOMAIN SCENARIOS
    /\ current_step \in 0..(NumSteps(scenario) - 1)
    /\ rendered[1] \in DOMAIN SCENARIOS
    /\ rendered[2] \in 0..(NumSteps(rendered[1]) - 1)
    /\ tour \in 1..Len(AllPairs)

C3_Witness ==
    /\ tour = Len(AllPairs)
    /\ {AllPairs[n] : n \in 1..Len(AllPairs)} =
         UNION {{<<sc, i>> : i \in 0..(NumSteps(sc) - 1)} : sc \in DOMAIN SCENARIOS}

\* C24: each user action that is delivered (Previous, Next, selecting another
\* scenario) causes exactly one call of build_complete_diagram before the
\* next user action is accepted, and that call is for the state the action
\* results in.
C24_OneBuildPerAction ==
    (nav_pc = "idle" /\ last.op \in {"retreat", "advance", "select"} /\ builds > 0) =>
      /\ builds = 1
      /\ rendered = <<scenario, current_step>>

\* C25: a navigation action moves the step index by at most 1 and never
\* changes the scenario; k Next clicks in a row from step 0 show the indices
\* 1, 2, ..., k in that order, and after N-1 of them Next is disabled; an index
\* change of more than 1 comes only from a switch to another scenario.
C25_NoStepSkipped ==
    /\ last.op \in {"advance", "retreat"} =>
         /\ scenario = last.scenario
         /\ current_step - last.step \in {-1, 0, 1}
    /\ (current_step - last.step \notin {-1, 0, 1}) =>
         (last.op = "select" /\ scenario # last.scenario)
    /\ streak >= 0 =>
         /\ current_step = streak
         /\ nav_pc = "idle" => rendered = <<scenario, streak>>
         /\ streak = NumSteps(scenario) - 1 => NextDisabled(scenario, current_step)
         /\ streak < NumSteps(scenario) - 1 => ~NextDisabled(scenario, current_step)

\* The last step of a scenario has been reached and shown by N-1 Next clicks
\* in a row from step 0
C25_Witness ==
    /\ last.op = "advance"
    /\ nav_pc = "idle"
    /\ streak = NumSteps(scenario) - 1
    /\ streak > 1
    /\ last.step = streak - 1
    /\ rendered = <<scenario, streak>>
    /\ NextDisabled(scenario, current_step)

(***************************************************************************)
(* solver.py: curve data.                                                  *)
(*                                                                         *)
(* Units.  A sample of np.linspace(a, b, NSamples) is a + (b-a)*k/(N-1),   *)
(* so interest rates and outputs are counted in units of 1/(N-1): X(v) is  *)
(* the number v.  Exchange rates and the LM ordinate are counted in units  *)
(* of 1/(1000*(N-1)): F(m) is m thousandths.  In these units every linear  *)
(* formula of the source is an integer, computed without rounding.         *)
(***************************************************************************)
NSamples == 100

X(v) == v * (NSamples - 1)
F(m) == m * (NSamples - 1)

\* np.linspace(a, b, NSamples), in units of 1/(N-1)
linspace(a, b) == [k \in 1..NSamples |-> X(a) + (b - a) * (k - 1)]

\* s[from:to]
Slice(s, from, to) == [k \in 1..(Min(to, Len(s)) - from) |-> s[from + k]]

\* the largest r in lo..hi with r*r <= n
RECURSIVE ISqrtBetween(_, _, _)
ISqrtBetween(n, lo, hi) ==
    IF lo >= hi THEN lo
    ELSE LET mid == (lo + hi + 1) \div 2 IN
         IF mid * mid <= n THEN ISqrtBetween(n, mid, hi)
                           ELSE ISqrtBetween(n, lo, mid - 1)

\* np.sqrt, rounded down to the unit of its result
ISqrt(n) == ISqrtBetween(n, 0, 46340)

\* dict.update / {**d, ...}: the keys of u replace or extend those of d
Update(d, u) ==
    [k \in DOMAIN d \cup DOMAIN u |-> IF k \in DOMAIN u THEN u[k] ELSE d[k]]

\* _generate_base_curves(): the returned dict, and the heap holding the three
\* level records it creates.  A curve is the pair <<xs, ys>>; numpy arrays are
\* never written in place by this module, so they are held by value.
\* invest_y is in tenths (30 + 20*sqrt(i/8), rounded down).
_generate_base_curves(h) ==
    LET i_range == linspace(0, 8)
        y_range == linspace(50, 150)
        invest_x == i_range
        invest_y == [k \in 1..Len(i_range) |->
                        300 + ISqrt((40000 * i_range[k]) \div X(8))]
        demand_line ==
            [ad_x |-> y_range,
             ad_y |-> [k \in 1..Len(y_range) |-> 700 * y_range[k] + F(15000)],
             line45_x |-> y_range,
             line45_y |-> y_range]
        uip_x == Slice(i_range, 10, 70)
        uip_y == [k \in 1..Len(uip_x) |-> F(1800) - 12 * uip_x[k]]
        lm_x == Slice(y_range, 0, 80)
        lm_y == [k \in 1..Len(lm_x) |-> F(1500) + 25 * (lm_x[k] - X(50))]
        dd_y == y_range
        dd_e_pre == [k \in 1..Len(dd_y) |-> F(1800) - 6 * (dd_y[k] - X(100))]
        aa_y == y_range
        aa_e_pre == [k \in 1..Len(aa_y) |-> F(1000) + 8 * (aa_y[k] - X(100))]
        y_eq == X(100)
        e_eq == F(1400)
        i_eq == X(3)
    IN [data |->
          [invest_curve |-> <<invest_x, invest_y>>,
           demand_line |-> demand_line,
           uip_curve |-> <<uip_x, uip_y>>,
           lm_curve |-> <<lm_x, lm_y>>,
           points_DD_pre |-> <<dd_y, dd_e_pre>>,
           points_DD_post |-> <<dd_y, dd_e_pre>>,
           points_AA_pre |-> <<aa_y, aa_e_pre>>,
           points_AA_post |-> <<aa_y, aa_e_pre>>,
           equilibrium_pre |-> <<y_eq, e_eq>>,
           equilibrium_post |-> <<y_eq, e_eq>>,
           interest_levels |-> Len(h) + 1,
           exchange_levels |-> Len(h) + 2,
           output_levels |-> Len(h) + 3],
        heap |->
          h \o << [i1 |-> i_eq, i2 |-> i_eq - X(1), i3 |-> i_eq],
                  [s1 |-> F(1400), s2 |-> F(1500), s3 |-> F(1400)],
                  [Y1 |-> X(100), Y2 |-> X(110), Y3 |-> X(100)] >>]

ShiftLmCurvesTruncates(data, shift_right) ==
    LET lm_x == data.lm_curve[1]
        lm_y == data.lm_curve[2]
        shift == IF shift_right THEN X(15) ELSE 0 - X(15)
        new_lm_x == [k \in 1..(Len(lm_x) - 1) |-> lm_x[k] + shift]
    IN Update(data, [lm_curve |-> <<new_lm_x, lm_y>>,
                     lm_curve_original |-> data.lm_curve])
\* _shift_lm_curves(data, shift_right): data.copy() is a shallow copy
_shift_lm_curves(data, shift_right) ==
    LET lm_x == data.lm_curve[1]
        lm_y == data.lm_curve[2]
        shift == IF shift_right THEN X(15) ELSE 0 - X(15)
        new_lm_x == [k \in 1..Len(lm_x) |-> lm_x[k] + shift]
    IN Update(data, [lm_curve |-> <<new_lm_x, lm_y>>,
                     lm_curve_original |-> data.lm_curve])

ShiftAaCurveMovesPre(data, shift_right) ==
    LET aa_y == data.points_AA_post[1]
        aa_e == data.points_AA_post[2]
        shift == IF shift_right THEN F(200) ELSE 0 - F(200)
        new_aa_e == [k \in 1..Len(aa_e) |-> aa_e[k] + shift]
    IN Update(data, [points_AA_post |-> <<aa_y, new_aa_e>>,
                     points_AA_pre |-> <<aa_y, new_aa_e>>])
\* _shift_aa_curve(data, shift_right)
_shift_aa_curve(data, shift_right) ==
    LET aa_y == data.points_AA_post[1]
        aa_e == data.points_AA_post[2]
        shift == IF shift_right THEN F(200) ELSE 0 - F(200)
        new_aa_e == [k \in 1..Len(aa_e) |-> aa_e[k] + shift]
    IN Update(data, [points_AA_post |-> <<aa_y, new_aa_e>>])

\* _adjust_interest_rate(data, decrease): writes through the copied reference
_adjust_interest_rate(data, h, decrease) ==
    LET a == data.interest_levels IN
    [data |-> data,
     heap |-> [h EXCEPT ![a].i2 = IF decrease THEN h[a].i1 - X(1)
                                              ELSE h[a].i1 + X(1)]]

\* _calculate_new_equilibrium(data, output_increase)
_calculate_new_equilibrium(data, h, output_increase) ==
    LET new_y == IF output_increase THEN data.equilibrium_pre[1] + X(10)
                                    ELSE data.equilibrium_pre[1] - X(10)
        new_e == IF output_increase THEN data.equilibrium_pre[2] + F(100)
                                    ELSE data.equilibrium_pre[2] - F(100)
    IN [data |-> Update(data, [equilibrium_post |-> <<new_y, new_e>>]),
        heap |-> [h EXCEPT ![data.output_levels].Y2 = new_y]]

PermanentExpansionShiftsKeepsS2(base_data, h, step) ==
    LET d0 == base_data
        d1 == IF step >= 1
              THEN Update(_shift_lm_curves(d0, TRUE), [demand_curves_multi |-> TRUE])
              ELSE d0
        h1 == IF step >= 1
              THEN [h EXCEPT ![d1.interest_levels].i2 = h[d1.interest_levels].i1 - X(1)]
              ELSE h
        aa == d1.points_AA_pre
        dd == d1.points_DD_pre
        d2 == IF step >= 2
              THEN Update(d1,
                     [points_AA_post |->
                        <<aa[1], [k \in 1..Len(aa[2]) |-> aa[2][k] + F(300)]>>,
                      points_DD_post |->
                        <<dd[1], [k \in 1..Len(dd[2]) |-> dd[2][k] - F(100)]>>])
              ELSE d1
        h2 == IF step >= 2
              THEN [h1 EXCEPT ![d2.exchange_levels].s2 = F(1600)]
              ELSE h1
        d3 == IF step >= 3
              THEN Update(d2,
                     [points_AA_post |->
                        <<aa[1], [k \in 1..Len(aa[2]) |-> aa[2][k] + F(50)]>>,
                      equilibrium_post |-> d2.equilibrium_pre])
              ELSE d2
        h3 == IF step >= 3
              THEN [h2 EXCEPT ![d3.interest_levels].i3 = h2[d3.interest_levels].i1,
                              ![d3.exchange_levels].s3 = h2[d3.exchange_levels].s2]
              ELSE h2
    IN [data |-> d3, heap |-> h3]
\* _permanent_expansion_shifts(base_data, step)
_permanent_expansion_shifts(base_data, h, step) ==
    LET d0 == base_data
        d1 == IF step >= 1
              THEN Update(_shift_lm_curves(d0, TRUE), [demand_curves_multi |-> TRUE])
              ELSE d0
        h1 == IF step >= 1
              THEN [h EXCEPT ![d1.interest_levels].i2 = h[d1.interest_levels].i1 - X(1)]
              ELSE h
        aa == d1.points_AA_pre
        dd == d1.points_DD_pre
        d2 == IF step >= 2
              THEN Update(d1,
                     [points_AA_post |->
                        <<aa[1], [k \in 1..Len(aa[2]) |-> aa[2][k] + F(300)]>>,
                      points_DD_post |->
                        <<dd[1], [k \in 1..Len(dd[2]) |-> dd[2][k] - F(100)]>>])
              ELSE d1
        h2 == IF step >= 2
              THEN [h1 EXCEPT ![d2.exchange_levels].s2 = F(1600)]
              ELSE h1
        d3 == IF step >= 3
              THEN Update(d2,
                     [points_AA_post |->
                        <<aa[1], [k \in 1..Len(aa[2]) |-> aa[2][k] + F(50)]>>,
                      equilibrium_post |-> d2.equilibrium_pre])
              ELSE d2
        h3 == IF step >= 3
              THEN [h2 EXCEPT ![d3.interest_levels].i3 = h2[d3.interest_levels].i1,
                              ![d3.exchange_levels].s3 = h2[d3.exchange_levels].s1]
              ELSE h2
    IN [data |-> d3, heap |-> h3]

(***************************************************************************)
(* solver.py: the frames functions.  trajectory_progress is in hundredths. *)
(* Subscripts and arrows of the display strings are written in ASCII.      *)
(***************************************************************************)
InitialEquilibriumFramesShifted(base_data) ==
    << Update(base_data,
         [title |-> "Initial Equilibrium | GDP at Full Employment Level",
          description |-> "Economy at full employment with stable prices and exchange rate.",
          trajectory_progress |-> 0,
          show_shifts |-> TRUE]) >>
InitialEquilibriumFramesPostMoved(base_data) ==
    << Update(base_data,
         [title |-> "Initial Equilibrium | GDP at Full Employment Level",
          description |-> "Economy at full employment with stable prices and exchange rate.",
          trajectory_progress |-> 0,
          show_shifts |-> FALSE,
          equilibrium_post |-> <<base_data.equilibrium_pre[1] + X(10),
                                 base_data.equilibrium_pre[2] + F(100)>>]) >>
\* _initial_equilibrium_frames(), after base_data = _generate_base_curves()
_initial_equilibrium_frames(base_data) ==
    << Update(base_data,
         [title |-> "Initial Equilibrium | GDP at Full Employment Level",
          description |-> "Economy at full employment with stable prices and exchange rate.",
          trajectory_progress |-> 0,
          show_shifts |-> FALSE]) >>

\* _temporary_monetary_expansion_frames(): the n-th frame (1..5) and the heap
\* after building it; fs is the list built so far
_temporary_monetary_expansion_frames(n, b, fs, h) ==
    CASE n = 1 ->
           [data |-> Update(b,
              [title |-> "Initial Equilibrium | GDP at Full Employment Level",
               description |-> "Starting point: Full employment equilibrium",
               trajectory_progress |-> 0,
               show_shifts |-> FALSE]),
            heap |-> h]
      [] n = 2 ->
           [data |-> Update(_shift_lm_curves(b, TRUE),
              [title |-> "Monetary Expansion | Step 1: Money Supply Increases",
               description |-> "Central bank increases money supply, shifting LM curve right",
               trajectory_progress |-> 20,
               show_shifts |-> TRUE,
               highlight_curve |-> "lm"]),
            heap |-> h]
      [] n = 3 ->
           LET r == _adjust_interest_rate(fs[2], h, TRUE) IN
           [data |-> Update(r.data,
              [title |-> "Monetary Expansion | Step 2: Interest Rate Falls",
               description |-> "Lower money demand leads to lower interest rates",
               trajectory_progress |-> 40,
               show_shifts |-> TRUE,
               highlight_curve |-> "investment"]),
            heap |-> r.heap]
      [] n = 4 ->
           [data |-> Update(_shift_aa_curve(fs[3], TRUE),
              [title |-> "Monetary Expansion | Step 3: AA Curve Shifts",
               description |-> "Lower interest rate causes currency depreciation, AA shifts right",
               trajectory_progress |-> 70,
               show_shifts |-> TRUE,
               highlight_curve |-> "aa"]),
            heap |-> h]
      [] n = 5 ->
           LET r == _calculate_new_equilibrium(fs[4], h, TRUE) IN
           [data |-> Update(r.data,
              [title |-> "Monetary Expansion | New Equilibrium",
               description |-> "Output increases temporarily above full employment",
               trajectory_progress |-> 100,
               show_shifts |-> TRUE,
               show_equilibrium_comparison |-> TRUE]),
            heap |-> r.heap]

\* _permanent_monetary_expansion_frames(): the n-th frame (1..5)
_permanent_monetary_expansion_frames(n, b, fs, h) ==
    CASE n = 1 ->
           [data |-> Update(b,
              [title |-> "INITIAL EQUILIBRIUM | GDP is at its Full Employment Level",
               description |-> "Y1 at full employment, stable interest rate i1",
               trajectory_progress |-> 0,
               show_shifts |-> FALSE,
               formulas |-> [top |-> "D1 = C1(Y1 - T) + I(i1) + G1 + CA1[(Y1 - T), s1P*/P]"]]),
            heap |-> h]
      [] n = 2 ->
           [data |-> Update(b,
              [title |-> "PERMANENT Expansionary Monetary Policy - SHORT RUN",
               description |-> "Central bank announces permanent money supply increase",
               trajectory_progress |-> 15,
               show_shifts |-> TRUE,
               highlight_announcement |-> TRUE]),
            heap |-> h]
      [] n = 3 ->
           LET r == _permanent_expansion_shifts(b, h, 1) IN
           [data |-> Update(r.data,
              [title |-> "PERMANENT Expansionary Monetary Policy - Adjustments",
               description |-> "LM shifts right, interest rates fall to i2",
               trajectory_progress |-> 40,
               show_shifts |-> TRUE,
               show_multiple_curves |-> TRUE,
               formulas |->
                 [top |-> "D2 = C2(Y2 - T) + I(i2) + G1 + CA2[(Y2 - T), s2P*/P]",
                  green_box |-> "D2 = C1(Y1 - T) + I(i1) +G1 + CA2[(Y2 - T), s3P*/P]"]]),
            heap |-> r.heap]
      [] n = 4 ->
           LET r == _permanent_expansion_shifts(b, h, 2) IN
           [data |-> Update(r.data,
              [title |-> "PERMANENT Expansionary Monetary Policy - AA Response",
               description |-> "AA shifts right due to expected depreciation",
               trajectory_progress |-> 70,
               show_shifts |-> TRUE,
               show_aa_arrows |-> TRUE]),
            heap |-> r.heap]
      [] n = 5 ->
           LET r == _permanent_expansion_shifts(b, h, 3) IN
           [data |-> Update(r.data,
              [title |-> "Maintaining the GDP at its Full Employment Level",
               description |->
                 "The EXPANSIONARY MONETARY policy compensates the change in money demand",
               trajectory_progress |-> 100,
               show_shifts |-> TRUE,
               show_policy_box |-> TRUE,
               policy_text |-> "Y1 = Y3   i1 = i3   s1 = s3"]),
            heap |-> r.heap]

\* get_scenario_frames: the if / elif chain
get_scenario_frames(scenario_index) ==
    CASE scenario_index = 0 -> "_initial_equilibrium_frames"
      [] scenario_index = 1 -> "_temporary_monetary_expansion_frames"
      [] scenario_index = 2 -> "_permanent_monetary_expansion_frames"
      [] scenario_index = 3 -> "_temporary_fiscal_expansion_frames"
      [] scenario_index = 4 -> "_permanent_fiscal_expansion_frames"
      [] scenario_index = 5 -> "_exchange_rate_crisis_frames"
      [] OTHER -> "_initial_equilibrium_frames"

\* The three placeholder functions return _initial_equilibrium_frames()
DelegatesToInitial(fn) ==
    fn \in {"_initial_equilibrium_frames", "_temporary_fiscal_expansion_frames",
            "_permanent_fiscal_expansion_frames", "_exchange_rate_crisis_frames"}

\* A frame as its reader sees it: the level records looked up in the heap
FrameView(f, h) ==
    Update(f, [interest_levels |-> h[f.interest_levels],
               exchange_levels |-> h[f.exchange_levels],
               output_levels |-> h[f.output_levels]])

FramesView(fs, h) == [k \in 1..Len(fs) |-> FrameView(fs[k], h)]

\* How many scenario_index values beyond each end of the registry 0..5 are tried
ExtraIndices == 2

ScenarioIndexInputs == (0 - ExtraIndices)..(5 + ExtraIndices)

FramesInit ==
    /\ fr_pc = "idle"
    /\ fr_index = 0
    /\ fr_fn = "none"
    /\ base = None
    /\ frames = <<>>
    /\ heap = <<>>
    /\ appended = <<>>
    /\ result = None

\* get_scenario_frames(scenario_index) is called; the frames function it
\* dispatches to runs base = _generate_base_curves()
CallGetScenarioFrames ==
    /\ UNCHANGED notFrames
    /\ fr_pc = "idle"
    /\ \E scenario_index \in ScenarioIndexInputs :
         LET g == _generate_base_curves(<<>>) IN
           /\ fr_index' = scenario_index
           /\ fr_fn' = get_scenario_frames(scenario_index)
           /\ base' = g.data
           /\ heap' = g.heap
    /\ frames' = <<>>
    /\ appended' = <<>>
    /\ fr_pc' = "running"
    /\ UNCHANGED result

\* return [{**base_data, ...}]
InitialEquilibriumFramesStep ==
    /\ UNCHANGED notFrames
    /\ fr_pc = "running"
    /\ DelegatesToInitial(fr_fn)
    /\ frames = <<>>
    /\ frames' = _initial_equilibrium_frames(base)
    /\ appended' = FramesView(frames', heap)
    /\ UNCHANGED <<fr_pc, fr_index, fr_fn, base, heap, result>>

\* frameN = ...; frameN.update({...}); frames.append(frameN)
TemporaryMonetaryExpansionStep ==
    /\ UNCHANGED notFrames
    /\ fr_pc = "running"
    /\ fr_fn = "_temporary_monetary_expansion_frames"
    /\ Len(frames) < 5
    /\ LET r == _temporary_monetary_expansion_frames(Len(frames) + 1, base, frames, heap) IN
         /\ frames' = Append(frames, r.data)
         /\ heap' = r.heap
         /\ appended' = Append(appended, FrameView(r.data, r.heap))
    /\ UNCHANGED <<fr_pc, fr_index, fr_fn, base, result>>

PermanentMonetaryExpansionStep ==
    /\ UNCHANGED notFrames
    /\ fr_pc = "running"
    /\ fr_fn = "_permanent_monetary_expansion_frames"
    /\ Len(frames) < 5
    /\ LET r == _permanent_monetary_expansion_frames(Len(frames) + 1, base, frames, heap) IN
         /\ frames' = Append(frames, r.data)
         /\ heap' = r.heap
         /\ appended' = Append(appended, FrameView(r.data, r.heap))
    /\ UNCHANGED <<fr_pc, fr_index, fr_fn, base, result>>

\* The number of frames the dispatched function builds before it returns
FrameCount(fn) == IF DelegatesToInitial(fn) THEN 1 ELSE 5

\* return frames
ReturnFrames ==
    /\ UNCHANGED notFrames
    /\ fr_pc = "running"
    /\ Len(frames) = FrameCount(fr_fn)
    /\ result' = [index |-> fr_index, outcome |-> "frames",
                  frames |-> FramesView(frames, heap)]
    /\ fr_pc' = "idle"
    /\ UNCHANGED <<fr_index, fr_fn, base, frames, heap, appended>>

FramesNext ==
    \/ CallGetScenarioFrames
    \/ InitialEquilibriumFramesStep
    \/ TemporaryMonetaryExpansionStep
    \/ PermanentMonetaryExpansionStep
    \/ ReturnFrames

(***************************************************************************)
(* The DD-AA intersection, in exact rational arithmetic: a number is a     *)
(* fraction [n, d] in lowest terms with d > 0.                             *)
(***************************************************************************)
RECURSIVE Gcd(_, _)
Gcd(a, b) == IF b = 0 THEN a ELSE Gcd(b, a % b)

Abs(a) == IF a < 0 THEN 0 - a ELSE a

R(n, d) ==
    LET g == Gcd(Abs(n), Abs(d))
        sgn == IF d < 0 THEN 0 - 1 ELSE 1
    IN [n |-> sgn * (n \div g), d |-> sgn * (d \div g)]

RAdd(a, b) == R(a.n * b.d + b.n * a.d, a.d * b.d)
RSub(a, b) == R(a.n * b.d - b.n * a.d, a.d * b.d)
RMul(a, b) == R(a.n * b.n, a.d * b.d)
RDiv(a, b) == R(a.n * b.d, a.d * b.n)
RLess(a, b) == a.n * b.d < b.n * a.d

DdCurveSlopeSign(Y, shift) == RAdd(RAdd(R(2, 1), RMul(R(5, 1000), Y)), shift)
\* DDAAModel.dd_curve at one output: E = 2.0 - 0.005 * Y + shift
dd_curve(Y, shift) == RAdd(RSub(R(2, 1), RMul(R(5, 1000), Y)), shift)

\* DDAAModel.aa_curve at one output: E = 0.8 + 0.008 * Y + shift
aa_curve(Y, shift) == RAdd(RAdd(R(8, 10), RMul(R(8, 1000), Y)), shift)

FindEquilibriumSignSlip(dd_shift, aa_shift) ==
    LET Y_eq == RDiv(RAdd(RAdd(R(12, 10), dd_shift), aa_shift), R(13, 1000))
        E_eq == dd_curve(Y_eq, dd_shift)
    IN <<Y_eq, E_eq>>
\* DDAAModel.find_equilibrium(dd_shift, aa_shift)
find_equilibrium(dd_shift, aa_shift) ==
    LET Y_eq == RDiv(RSub(RAdd(R(12, 10), dd_shift), aa_shift), R(13, 1000))
        E_eq == dd_curve(Y_eq, dd_shift)
    IN <<Y_eq, E_eq>>

\* _add_ddaa_panel.calculate_equilibrium(dd_shift, aa_shift)
calculate_equilibrium(dd_shift, aa_shift) ==
    LET Y == RDiv(RSub(RAdd(R(12, 10), dd_shift), aa_shift), R(13, 1000))
        E == RAdd(RSub(R(2, 1), RMul(R(5, 1000), Y)), dd_shift)
    IN <<Y, E>>

\* Shifts tried: the multiples of 0.01 from -MaxShift/100 to MaxShift/100
MaxShift == 8

ShiftInputs == {R(k, 100) : k \in (0 - MaxShift)..MaxShift}

EqInit == eq = None

\* model.find_equilibrium(dd_shift, aa_shift) is called
FindEquilibriumCall ==
    /\ UNCHANGED notEq
    /\ \E dd_shift \in ShiftInputs, aa_shift \in ShiftInputs :
         eq' = [fn |-> "find_equilibrium", dd_shift |-> dd_shift, aa_shift |-> aa_shift,
                point |-> find_equilibrium(dd_shift, aa_shift)]

\* calculate_equilibrium(dd_shift, aa_shift) is called in the DD-AA panel
CalculateEquilibriumCall ==
    /\ UNCHANGED notEq
    /\ \E dd_shift \in ShiftInputs, aa_shift \in ShiftInputs :
         eq' = [fn |-> "calculate_equilibrium", dd_shift |-> dd_shift,
                aa_shift |-> aa_shift,
                point |-> calculate_equilibrium(dd_shift, aa_shift)]

EqNext == FindEquilibriumCall \/ CalculateEquilibriumCall

(***************************************************************************)
(* Frame claims (SpecFrames).                                              *)
(***************************************************************************)
\* The point pt = <<x, y>> lies on the sampled curve <<xs, ys>>: on the segment
\* between two neighbouring samples (the curves are linear, so this is the
\* curve's formula evaluated at x)
OnCurve(pt, curve) ==
    LET xs == curve[1]
        ys == curve[2]
    IN \E k \in 1..(Len(xs) - 1) :
         /\ xs[k] <= pt[1]
         /\ pt[1] <= xs[k + 1]
         /\ (pt[2] - ys[k]) * (xs[k + 1] - xs[k]) = (ys[k + 1] - ys[k]) * (pt[1] - xs[k])

\* C4: in every frame returned by get_scenario_frames, equilibrium_post lies on
\* points_DD_post and on points_AA_post, and equilibrium_pre lies on
\* points_DD_pre and on points_AA_pre.
C4_EquilibriumOnCurves ==
    result # None =>
      \A k \in 1..Len(result.frames) :
        LET f == result.frames[k] IN
          /\ OnCurve(f.equilibrium_post, f.points_DD_post)
          /\ OnCurve(f.equilibrium_post, f.points_AA_post)
          /\ OnCurve(f.equilibrium_pre, f.points_DD_pre)
          /\ OnCurve(f.equilibrium_pre, f.points_AA_pre)

\* C6: within one call, a frame that has been appended keeps every value it had
\* when it was appended, the nested level records included, while the later
\* frames are built.
C6_AppendedFramesUnchanged ==
    \A k \in 1..Len(frames) : FrameView(frames[k], heap) = appended[k]

\* C8: a scenario index outside 0..5 is reported to the caller as an error and
\* never answered with the frames of a default scenario.
C8_UnknownIndexIsError ==
    (result # None /\ result.index \notin 0..5) => result.outcome = "error"

\* What get_scenario_frames(0), the 'Initial Equilibrium' scenario, returns
InitialEquilibriumReturn ==
    LET g == _generate_base_curves(<<>>) IN
      FramesView(_initial_equilibrium_frames(g.data), g.heap)

\* C9: each named scenario 1..5 returns its own frame sequence, with at least
\* one frame whose shifts are active, and never the single frame of scenario 0.
C9_NamedScenariosHaveOwnFrames ==
    (result # None /\ result.index \in 1..5) =>
      /\ \E k \in 1..Len(result.frames) : result.frames[k].show_shifts
      /\ result.frames # InitialEquilibriumReturn

\* C10: every scenario of SCENARIOS has at least one step and its step 0 has
\* changes == {}; for every scenario index, frame 0 of get_scenario_frames has
\* show_shifts False and trajectory_progress 0.0, while the list is built and
\* in the list returned.
C10_FirstStepEmpty ==
    /\ \A sc \in DOMAIN SCENARIOS :
         NumSteps(sc) >= 1 /\ StepAt(sc, 0).changes = EmptyDict
    /\ Len(frames) >= 1 =>
         (~frames[1].show_shifts /\ frames[1].trajectory_progress = 0)
    /\ result # None =>
         /\ Len(result.frames) >= 1
         /\ ~result.frames[1].show_shifts
         /\ result.frames[1].trajectory_progress = 0

\* Scenario 2 has returned its five frames, and a later call with an index
\* outside the registry has built its first frame
C10_Witness ==
    /\ result # None
    /\ result.index = 2
    /\ Len(result.frames) = 5
    /\ ~result.frames[1].show_shifts
    /\ fr_pc = "running"
    /\ fr_index \notin 0..5
    /\ Len(frames) = 1

\* Frame f shows a steady state: its post-shock curves and equilibrium are its
\* pre-shock ones
SteadyState(f) ==
    /\ f.points_DD_post = f.points_DD_pre
    /\ f.points_AA_post = f.points_AA_pre
    /\ f.equilibrium_post = f.equilibrium_pre

\* C11: frame 0 of every scenario is a steady state: its points_DD_post equals
\* its points_DD_pre, its points_AA_post equals its points_AA_pre and its
\* equilibrium_post equals its equilibrium_pre, when it is appended, while the
\* later frames of the scenario are built, and in the list returned.
C11_InitialFrameIsSteadyState ==
    /\ Len(frames) >= 1 => SteadyState(frames[1])
    /\ result # None =>
         (Len(result.frames) >= 1 /\ SteadyState(result.frames[1]))

\* A scenario has returned five frames, the last of which has moved its AA
\* curve and its equilibrium away from the pre-shock ones
C11_Witness ==
    /\ result # None
    /\ Len(result.frames) = 5
    /\ SteadyState(result.frames[1])
    /\ result.frames[5].points_AA_post # result.frames[5].points_AA_pre
    /\ result.frames[5].equilibrium_post # result.frames[5].equilibrium_pre

\* The curve fields of a frame that are pairs (x-sequence, y-sequence)
CurveNames ==
    {"invest_curve", "uip_curve", "lm_curve", "points_DD_pre", "points_DD_post",
     "points_AA_pre", "points_AA_post"}

\* The x-sequence never decreases and has as many samples as the y-sequence
WellFormedCurve(xs, ys) ==
    /\ Len(xs) = Len(ys)
    /\ \A k \in 1..(Len(xs) - 1) : xs[k] <= xs[k + 1]

\* Every curve of frame f is well formed and has the sample count of the same
\* curve of _generate_base_curves
CurvesOfFrameRegular(f) ==
    LET g == _generate_base_curves(<<>>).data IN
      /\ \A c \in CurveNames :
           /\ WellFormedCurve(f[c][1], f[c][2])
           /\ Len(f[c][1]) = Len(g[c][1])
      /\ WellFormedCurve(f.demand_line.ad_x, f.demand_line.ad_y)
      /\ WellFormedCurve(f.demand_line.line45_x, f.demand_line.line45_y)
      /\ Len(f.demand_line.ad_x) = Len(g.demand_line.ad_x)
      /\ "lm_curve_original" \in DOMAIN f =>
           /\ WellFormedCurve(f.lm_curve_original[1], f.lm_curve_original[2])
           /\ Len(f.lm_curve_original[1]) = Len(g.lm_curve[1])

\* C27: every curve of every frame, while the list is built and in the list
\* returned, has an x-sequence that never decreases and is as long as its
\* y-sequence, and every named curve has the same number of samples in every
\* frame of every scenario (that of the base curves), also after an LM or AA
\* shift.
C27_CurvesRegular ==
    /\ \A k \in 1..Len(frames) : CurvesOfFrameRegular(frames[k])
    /\ result # None => \A k \in 1..Len(result.frames) :
                          CurvesOfFrameRegular(result.frames[k])

\* Five frames have been returned whose LM curve and AA curve have been
\* shifted, and the shifted curves have 80 and 100 samples
C27_Witness ==
    /\ result # None
    /\ Len(result.frames) = 5
    /\ result.frames[4].lm_curve # result.frames[1].lm_curve
    /\ result.frames[4].points_AA_post # result.frames[1].points_AA_post
    /\ Len(result.frames[4].lm_curve[1]) = 80
    /\ Len(result.frames[4].points_AA_post[1]) = 100
    /\ Len(result.frames[4].uip_curve[1]) = 60

\* The fields of _generate_base_curves that a frames function may change
MovingFields ==
    {"points_DD_post", "points_AA_post", "equilibrium_post", "lm_curve",
     "interest_levels", "exchange_levels", "output_levels"}

\* Frame f holds the value of _generate_base_curves in every field of the
\* curve data other than the moving ones
PreShockReferenceKept(f) ==
    LET g == _generate_base_curves(<<>>).data IN
      /\ f.points_DD_pre = g.points_DD_pre
      /\ f.points_AA_pre = g.points_AA_pre
      /\ f.equilibrium_pre = g.equilibrium_pre
      /\ \A c \in DOMAIN g \ MovingFields : f[c] = g[c]

\* C29: in every frame of every scenario, while the list is built and in the
\* list returned, points_DD_pre, points_AA_pre and equilibrium_pre are the
\* values of _generate_base_curves; of the curve data only the *_post fields,
\* lm_curve and the level records differ between frames.
C29_PreShockReferenceFixed ==
    /\ \A k \in 1..Len(frames) : PreShockReferenceKept(frames[k])
    /\ result # None => \A k \in 1..Len(result.frames) :
                          PreShockReferenceKept(result.frames[k])

\* Five frames have been returned, the last with its AA curve, its equilibrium
\* and its LM curve moved away from those of the first, and its pre-shock
\* fields in place
C29_Witness ==
    /\ result # None
    /\ Len(result.frames) = 5
    /\ result.frames[5].points_AA_post # result.frames[5].points_AA_pre
    /\ result.frames[5].equilibrium_post # result.frames[1].equilibrium_post
    /\ result.frames[5].lm_curve # result.frames[1].lm_curve
    /\ result.frames[5].points_AA_pre = result.frames[1].points_AA_pre
    /\ result.frames[5].equilibrium_pre = result.frames[1].equilibrium_pre

\* points_AA_post of frame f lies above its points_AA_pre at every sample, by
\* less than in frame p
AboveBySmallerAmount(f, p) ==
    \A k \in 1..Len(f.points_AA_pre[2]) :
      /\ f.points_AA_post[2][k] > f.points_AA_pre[2][k]
      /\ f.points_AA_post[2][k] - f.points_AA_pre[2][k] <
           p.points_AA_post[2][k] - p.points_AA_pre[2][k]

C5_EquilibriumOnBothCurves ==
    eq # None =>
      /\ eq.point[2] = dd_curve(eq.point[1], eq.dd_shift)
      /\ eq.point[2] = aa_curve(eq.point[1], eq.aa_shift)

\* Both curves shifted, by different nonzero amounts of opposite sign
C5_Witness ==
    /\ eq # None
    /\ eq.fn = "find_equilibrium"
    /\ RLess(eq.dd_shift, R(0, 1))
    /\ RLess(R(0, 1), eq.aa_shift)
    /\ eq.point = calculate_equilibrium(eq.dd_shift, eq.aa_shift)

(***************************************************************************)
(* charts.py: build_complete_diagram.  The figure is the set of the traces *)
(* and annotations added (items), the lines drawn in the DD-AA panel       *)
(* (curves: E = intercept + slope * Y over Y = linspace(50, 150, 100)) and *)
(* the equilibrium marker of that panel.  Colours, widths and positions    *)
(* of labels are left out.                                                 *)
(***************************************************************************)
\* bool(changes.get(flag)) for a show_* flag, which holds True when present
Flag(changes, k) == k \in DOMAIN changes /\ changes[k] = TRUE

EmptyFigure == [items |-> {}, curves |-> {}, marker |-> None]

Line(name, intercept, slope) == [name |-> name, intercept |-> intercept, slope |-> slope]

\* _add_investment_panel(fig, changes, ...)
_add_investment_panel(changes) ==
    LET current_i == Get(changes, "i_level", "i1") IN
    {"investment:curve", "investment:title"}
    \cup (IF current_i = "i2" /\ Flag(changes, "show_i_arrow")
          THEN {"investment:i_arrow"} ELSE {})
    \cup {"investment:level_" \o n : n \in {m \in {"i1", "i2", "i3"} : m = "i1" \/ m = current_i}}

\* _add_demand_panel(fig, changes, ...)
_add_demand_panel(changes) ==
    LET eq_state == Get(changes, "equilibrium", "Y1") IN
    {"demand:line45", "demand:title"}
    \cup (IF Truthy(changes, "dd_shift")
          THEN {"demand:D1", "demand:D2", "demand:label_D1_D3", "demand:label_D2"}
          ELSE {"demand:D1"})
    \cup {"demand:level_" \o n : n \in {m \in {"Y1", "Y2", "Y3"} : m = "Y1" \/ m = eq_state}}

\* _add_serl_panel(fig, changes, ...)
_add_serl_panel(changes) ==
    {"serl:curve", "serl:formula", "serl:title", "serl:level_s1"}
    \cup (IF Get(changes, "aa_shift", 0) = 10 /\ Flag(changes, "show_s_arrow")
          THEN {"serl:s_arrow"} ELSE {})
    \cup (IF Truthy(changes, "aa_shift") THEN {"serl:level_s2"} ELSE {})

\* _add_money_market_panel(fig, changes, ...)
_add_money_market_panel(changes) ==
    LET y3 == Get(changes, "equilibrium", "") = "Y3"
        lm == Truthy(changes, "lm_shift")
    IN
    {"money:MS1", "money:label_MS1", "money:title", "money:L1", "money:eq_Initial"}
    \cup (IF Flag(changes, "show_transition") \/ y3
          THEN {"money:L2", "money:L3"}
          ELSE IF lm THEN {"money:L2"} ELSE {})
    \cup (IF lm THEN {"money:eq_Short-run"} ELSE {})
    \cup (IF y3 THEN {"money:eq_Transition", "money:arrow_final", "money:MS2",
                      "money:label_MS2", "money:eq_Long-run"} ELSE {})
    \cup (IF Flag(changes, "show_money_increase")
          THEN {"money:arrow_increase", "money:arrow_MS_up"} ELSE {})
    \cup (IF Flag(changes, "show_transition")
          THEN {"money:mark_1", "money:mark_2", "money:mark_3", "money:arrow_sequence"}
          ELSE {})
    \cup (IF Flag(changes, "show_long_run") THEN {"money:arrow_P_up"} ELSE {})
    \cup (IF lm /\ ~y3 THEN {"money:guide_h", "money:guide_v", "money:label_i2"} ELSE {})

\* _add_ddaa_panel: the equilibrium selected by changes["equilibrium"]
DdaaEquilibrium(changes) ==
    LET eq_state == Get(changes, "equilibrium", "Y1")
        dd_s == IF Truthy(changes, "dd_shift") THEN R(1, 10) ELSE R(0, 1)
    IN CASE eq_state = "Y1" -> calculate_equilibrium(R(0, 1), R(0, 1))
         [] eq_state = "Y2" ->
              calculate_equilibrium(dd_s,
                IF Get(changes, "aa_shift", 0) = 10 THEN R(1, 10) ELSE R(0, 1))
         [] eq_state = "Y3" ->
              calculate_equilibrium(dd_s,
                IF Get(changes, "aa_shift", 0) = 20 THEN R(2, 100) ELSE R(0, 1))
         [] OTHER -> calculate_equilibrium(R(0, 1), R(0, 1))

\* _add_ddaa_panel(fig, changes, ...): the lines drawn
DdaaCurves(changes) ==
    {Line("DD1", R(2, 1), R(0 - 5, 1000)), Line("AA1", R(8, 10), R(8, 1000))}
    \cup (IF Truthy(changes, "dd_shift")
          THEN {Line("DD2", R(21, 10), R(0 - 5, 1000))} ELSE {})
    \cup (IF Get(changes, "aa_shift", 0) = 10
          THEN {Line("AA2", R(9, 10), R(8, 1000))}
          ELSE IF Get(changes, "aa_shift", 0) = 20
               THEN {Line("AA3", R(82, 100), R(8, 1000))} ELSE {})

\* _add_ddaa_panel(fig, changes, ...): labels, arrows and boxes
_add_ddaa_panel(changes) ==
    {"ddaa:label_DD1", "ddaa:label_AA1", "ddaa:marker", "ddaa:title"}
    \cup (IF Truthy(changes, "dd_shift")
          THEN {"ddaa:label_DD2"} \cup
               (IF Flag(changes, "show_dd_arrow") THEN {"ddaa:dd_arrow"} ELSE {})
          ELSE {})
    \cup (IF Get(changes, "aa_shift", 0) = 10
          THEN {"ddaa:label_AA2"} \cup
               (IF Flag(changes, "show_aa_arrow") THEN {"ddaa:aa_arrow"} ELSE {})
          ELSE IF Get(changes, "aa_shift", 0) = 20
               THEN {"ddaa:label_AA3"} \cup
                    (IF Flag(changes, "show_aa_return_arrow")
                     THEN {"ddaa:aa_return_arrow"} ELSE {})
               ELSE {})
    \cup (IF Get(changes, "equilibrium", "") = "Y3" THEN {"ddaa:policy_box"} ELSE {})

\* _add_trajectory(fig, step_index, ...): `trajectories` has the keys 1..6
_add_trajectory(step_index) ==
    IF step_index \in 1..6 THEN {"trajectory:line", "trajectory:arrowhead"} ELSE {}

\* _add_shift_arrows: arrow_schedule
arrow_schedule(step_index) ==
    CASE step_index = 1 -> {"show_i_arrow"}
      [] step_index = 2 -> {"show_s_arrow"}
      [] step_index = 3 -> {"show_aa_arrow"}
      [] step_index = 4 -> {"show_dd_arrow"}
      [] step_index = 6 -> {"show_aa_return_arrow"}
      [] OTHER -> {}

\* _add_shift_arrows(fig, changes, step_index): changes[arrow_flag] = True
_add_shift_arrows(changes, step_index) ==
    Update(changes, [k \in arrow_schedule(step_index) |-> TRUE])

\* _add_annotations(fig, step_data, changes)
_add_annotations(step_data, changes) ==
    (IF Truthy(changes, "dd_shift") THEN {"annotation:formula_D3"}
     ELSE IF Get(step_data, "title", "") = "Initial Equilibrium"
          THEN {"annotation:formula_D1"} ELSE {})
    \cup (IF Get(changes, "equilibrium", "") = "Y2" THEN {"annotation:box_D2"} ELSE {})

\* The step_index values tried: 0..MaxStepIndex
MaxStepIndex == 7

\* A Shift State holding every key the panels read
FullChanges ==
    [lm_shift |-> 10, i_level |-> "i2", aa_shift |-> 10, dd_shift |-> 10,
     equilibrium |-> "Y2", s_level |-> "s2",
     show_i_arrow |-> TRUE, show_s_arrow |-> TRUE, show_aa_arrow |-> TRUE,
     show_dd_arrow |-> TRUE, show_aa_return_arrow |-> TRUE, show_transition |-> TRUE,
     show_money_increase |-> TRUE, show_long_run |-> TRUE]

ShiftKeys == {"lm_shift", "i_level", "aa_shift", "dd_shift", "equilibrium", "s_level"}

FlagKeys == DOMAIN FullChanges \ ShiftKeys

\* FullChanges with only the keys of `keys` present
Restrict(d, keys) == [k \in keys |-> d[k]]

\* Steps whose changes hold a subset of the shift keys, without the show_*
\* flags or with all of them
PartialSteps ==
    {Step("Partial", Restrict(FullChanges, present \cup flags)) :
       present \in SUBSET ShiftKeys, flags \in {{}, FlagKeys}}

\* The step_data values tried: every step of SCENARIOS, the partial steps, the
\* dict build_canvas passes, and a dict without a "changes" entry
RegistrySteps ==
    UNION {{SCENARIOS[sc][n] : n \in 1..Len(SCENARIOS[sc])} : sc \in DOMAIN SCENARIOS}

StepDataInputs ==
    RegistrySteps
    \cup PartialSteps
    \cup {[changes |-> EmptyDict], [title |-> "Untitled"]}

DiagInit ==
    /\ dg_pc = "idle"
    /\ dg_step_data = None
    /\ dg_original = None
    /\ dg_step_index = 0
    /\ dg_changes = EmptyDict
    /\ dg_fig = EmptyFigure

\* build_complete_diagram(step_data, step_index) is called:
\* fig = make_subplots(...); changes = step_data.get("changes", {})
BuildCompleteDiagram ==
    /\ UNCHANGED notDiag
    /\ dg_pc \in {"idle", "returned"}
    /\ \E step_data \in StepDataInputs, step_index \in 0..MaxStepIndex :
         /\ dg_step_data' = step_data
         /\ dg_original' = step_data
         /\ dg_step_index' = step_index
         /\ dg_changes' = Get(step_data, "changes", EmptyDict)
    /\ dg_fig' = EmptyFigure
    /\ dg_pc' = "panels"

\* The five _add_*_panel calls
AddPanels ==
    /\ UNCHANGED notDiag
    /\ dg_pc = "panels"
    /\ dg_fig' = [items |-> _add_investment_panel(dg_changes) \cup _add_demand_panel(dg_changes)
                            \cup _add_serl_panel(dg_changes) \cup _add_money_market_panel(dg_changes)
                            \cup _add_ddaa_panel(dg_changes),
                  curves |-> DdaaCurves(dg_changes),
                  marker |-> DdaaEquilibrium(dg_changes)]
    /\ dg_pc' = "trajectory"
    /\ UNCHANGED <<dg_step_data, dg_original, dg_step_index, dg_changes>>

\* if step_index > 0: _add_trajectory(...)
AddTrajectory ==
    /\ UNCHANGED notDiag
    /\ dg_pc = "trajectory"
    /\ dg_fig' = IF dg_step_index > 0
                 THEN [dg_fig EXCEPT !.items = @ \cup _add_trajectory(dg_step_index)]
                 ELSE dg_fig
    /\ dg_pc' = "arrows"
    /\ UNCHANGED <<dg_step_data, dg_original, dg_step_index, dg_changes>>

\* if changes: _add_shift_arrows(fig, changes, step_index)
AddShiftArrows ==
    /\ UNCHANGED notDiag
    /\ dg_pc = "arrows"
    /\ dg_changes' = IF NonEmpty(dg_changes)
                     THEN _add_shift_arrows(dg_changes, dg_step_index)
                     ELSE dg_changes
    /\ dg_step_data' = IF "changes" \in DOMAIN dg_step_data
                       THEN [dg_step_data EXCEPT !.changes = dg_changes']
                       ELSE dg_step_data
    /\ dg_pc' = "annotations"
    /\ UNCHANGED <<dg_original, dg_step_index, dg_fig>>

\* _add_annotations(fig, step_data, changes); _style_figure(fig); return fig
AnnotateAndReturn ==
    /\ UNCHANGED notDiag
    /\ dg_pc = "annotations"
    /\ dg_fig' = [dg_fig EXCEPT !.items = @ \cup _add_annotations(dg_step_data, dg_changes)]
    /\ dg_pc' = "returned"
    /\ UNCHANGED <<dg_step_data, dg_original, dg_step_index, dg_changes>>

DiagNext ==
    \/ BuildCompleteDiagram
    \/ AddPanels
    \/ AddTrajectory
    \/ AddShiftArrows
    \/ AnnotateAndReturn

(***************************************************************************)
(* Diagram claims (SpecDiagram).                                           *)
(***************************************************************************)
\* C7: building the frame for a step does not modify the step: when
\* build_complete_diagram(step_data, step_index) has returned,
\* step_data['changes'] holds exactly the keys and values it held before.
C7_StepDataUnchanged ==
    (dg_pc = "returned" /\ "changes" \in DOMAIN dg_original) =>
      /\ "changes" \in DOMAIN dg_step_data
      /\ dg_step_data.changes = dg_original.changes

\* What the five panels hold when nothing is shifted
BasePanelItems ==
    {"investment:curve", "investment:title", "investment:level_i1",
     "demand:line45", "demand:title", "demand:D1", "demand:level_Y1",
     "serl:curve", "serl:formula", "serl:title", "serl:level_s1",
     "money:MS1", "money:label_MS1", "money:title", "money:L1", "money:eq_Initial",
     "ddaa:label_DD1", "ddaa:label_AA1", "ddaa:marker", "ddaa:title"}

\* The items that do not belong to a panel: the trajectory overlay and the
\* formula boxes
OverlayItems ==
    {"trajectory:line", "trajectory:arrowhead", "annotation:formula_D1",
     "annotation:formula_D3", "annotation:box_D2"}

\* The point pt lies on both unshifted lines of the DD-AA panel
ZeroShiftEquilibrium(pt) ==
    /\ pt[2] = RSub(R(2, 1), RMul(R(5, 1000), pt[1]))
    /\ pt[2] = RAdd(R(8, 10), RMul(R(8, 1000), pt[1]))

\* C19: a missing key of a step's Shift State means 'no shift / default level'
\* and is never an error.  For every subset of the keys present in changes,
\* and for a step_data without a 'changes' entry, build_complete_diagram
\* returns a figure with the unshifted panel items, DD1, AA1 and an
\* equilibrium marker; without dd_shift there is no DD2, without aa_shift no
\* AA2 or AA3, without either the marker is the zero-shift equilibrium; with
\* every key absent the panels hold the base items only.
C19_MissingKeysAreDefaults ==
    dg_pc = "returned" =>
      LET given == Get(dg_original, "changes", EmptyDict)
          names == {c.name : c \in dg_fig.curves}
      IN /\ BasePanelItems \subseteq dg_fig.items
         /\ {"DD1", "AA1"} \subseteq names
         /\ dg_fig.marker # None
         /\ "dd_shift" \notin DOMAIN given => "DD2" \notin names
         /\ "aa_shift" \notin DOMAIN given => names \cap {"AA2", "AA3"} = {}
         /\ DOMAIN given \cap {"dd_shift", "aa_shift"} = {} =>
              ZeroShiftEquilibrium(dg_fig.marker)
         /\ given = EmptyDict =>
              /\ names = {"DD1", "AA1"}
              /\ dg_fig.items \ OverlayItems = BasePanelItems
              /\ ZeroShiftEquilibrium(dg_fig.marker)

\* A step_data without a 'changes' entry has been drawn, for a step index
\* that has a trajectory
C19_Witness ==
    /\ dg_pc = "returned"
    /\ "changes" \notin DOMAIN dg_original
    /\ dg_step_index = 3
    /\ "trajectory:line" \in dg_fig.items
    /\ {c.name : c \in dg_fig.curves} = {"DD1", "AA1"}

\* The point pt lies on the line drawn under the name `name`
OnLine(pt, name) ==
    \E c \in dg_fig.curves :
      /\ c.name = name
      /\ pt[2] = RAdd(c.intercept, RMul(c.slope, pt[1]))

Drawn(name) == \E c \in dg_fig.curves : c.name = name

\* C21: for every step of every scenario of SCENARIOS, the equilibrium marker
\* of the DD-AA panel agrees with the post-shock curves of that panel: it lies
\* on DD2 when DD2 is drawn and on DD1 otherwise, and on AA2 or AA3 when one
\* of them is drawn and on AA1 otherwise.
C21_MarkerOnDrawnCurves ==
    (dg_pc = "returned" /\ dg_original \in RegistrySteps) =>
      /\ OnLine(dg_fig.marker, IF Drawn("DD2") THEN "DD2" ELSE "DD1")
      /\ OnLine(dg_fig.marker,
                IF Drawn("AA2") THEN "AA2" ELSE IF Drawn("AA3") THEN "AA3" ELSE "AA1")

\* A line of the names `names` is drawn whose intercept lies above `unshifted`
\* when shift > 0 and below it when shift < 0
DisplacedLine(names, unshifted, shift) ==
    \E c \in dg_fig.curves :
      /\ c.name \in names
      /\ shift > 0 => RLess(unshifted, c.intercept)
      /\ shift < 0 => RLess(c.intercept, unshifted)

\* C22: for every step of every scenario of SCENARIOS, a nonzero aa_shift
\* gives a post-shock AA curve next to the base AA curve and a nonzero dd_shift
\* gives a post-shock DD curve next to the base DD curve, each displaced in the
\* direction of the sign of its shift.
C22_NonzeroShiftDrawsCurve ==
    (dg_pc = "returned" /\ dg_original \in RegistrySteps) =>
      LET given == dg_original.changes IN
        /\ Truthy(given, "aa_shift") =>
             DisplacedLine({"AA2", "AA3"}, R(8, 10), given.aa_shift)
        /\ Truthy(given, "dd_shift") =>
             DisplacedLine({"DD2"}, R(2, 1), given.dd_shift)

\* The arrow a panel draws for a flag, and the condition on changes under
\* which the panel tests the flag
ArrowItem(flag) ==
    CASE flag = "show_i_arrow" -> "investment:i_arrow"
      [] flag = "show_s_arrow" -> "serl:s_arrow"
      [] flag = "show_aa_arrow" -> "ddaa:aa_arrow"
      [] flag = "show_dd_arrow" -> "ddaa:dd_arrow"
      [] flag = "show_aa_return_arrow" -> "ddaa:aa_return_arrow"

ArrowTested(flag, changes) ==
    CASE flag = "show_i_arrow" -> Get(changes, "i_level", "i1") = "i2"
      [] flag = "show_s_arrow" -> Get(changes, "aa_shift", 0) = 10
      [] flag = "show_aa_arrow" -> Get(changes, "aa_shift", 0) = 10
      [] flag = "show_dd_arrow" -> Truthy(changes, "dd_shift")
      [] flag = "show_aa_return_arrow" -> Get(changes, "aa_shift", 0) = 20

\* C23: in one call build_complete_diagram(step_data, k) with non-empty changes
\* and k in 1..6, the arrow flags scheduled for step k are enabled when the
\* panels are about to test them, and the arrow of every scheduled flag whose
\* panel tests it is in the figure returned.
C23_ArrowsOfStepAppear ==
    (NonEmpty(dg_changes) /\ dg_step_index \in 1..6) =>
      /\ dg_pc = "panels" =>
           \A flag \in arrow_schedule(dg_step_index) : Flag(dg_changes, flag)
      /\ dg_pc = "returned" =>
           \A flag \in arrow_schedule(dg_step_index) :
             ArrowTested(flag, dg_changes) => ArrowItem(flag) \in dg_fig.items

(***************************************************************************)
(* model.py: get_curve_data.  Numbers are exact fractions; a numpy array   *)
(* is a sequence and dd_curve / aa_curve act on it sample by sample.       *)
(***************************************************************************)
\* np.linspace(a, b, num) for integers a, b
np_linspace(a, b, num) == [k \in 1..num |-> R(a * (num - 1) + (b - a) * (k - 1), num - 1)]

GetCurveDataBaseSlip(dd_shift, aa_shift) ==
    LET Y_range == np_linspace(50, 150, NSamples) IN
    [Y_range |-> Y_range,
     DD_curve |-> [k \in DOMAIN Y_range |-> dd_curve(Y_range[k], dd_shift)],
     AA_curve |-> [k \in DOMAIN Y_range |-> aa_curve(Y_range[k], aa_shift)],
     DD_base |-> [k \in DOMAIN Y_range |-> dd_curve(Y_range[k], dd_shift)],
     AA_base |-> [k \in DOMAIN Y_range |-> aa_curve(Y_range[k], R(0, 1))]]
\* DDAAModel.get_curve_data(dd_shift, aa_shift)
get_curve_data(dd_shift, aa_shift) ==
    LET Y_range == np_linspace(50, 150, NSamples) IN
    [Y_range |-> Y_range,
     DD_curve |-> [k \in DOMAIN Y_range |-> dd_curve(Y_range[k], dd_shift)],
     AA_curve |-> [k \in DOMAIN Y_range |-> aa_curve(Y_range[k], aa_shift)],
     DD_base |-> [k \in DOMAIN Y_range |-> dd_curve(Y_range[k], R(0, 1))],
     AA_base |-> [k \in DOMAIN Y_range |-> aa_curve(Y_range[k], R(0, 1))]]

CurvesInit == curve_data = None

\* model.get_curve_data(dd_shift, aa_shift) is called.  The method reads no
\* state and writes none, so a second call shows nothing the first cannot:
\* the call is taken once, from the initial state.
GetCurveDataCall ==
    /\ UNCHANGED notCurves
    /\ curve_data = None
    /\ \E dd_shift \in ShiftInputs, aa_shift \in ShiftInputs :
         curve_data' = [dd_shift |-> dd_shift, aa_shift |-> aa_shift,
                        data |-> get_curve_data(dd_shift, aa_shift)]

CurvesNext == GetCurveDataCall

(***************************************************************************)
(* Curve claims (SpecCurves).                                              *)
(***************************************************************************)
\* C12: a zero shift reproduces the base curve: at every sample DD_base is
\* 2.0 - 0.005*Y and AA_base is 0.8 + 0.008*Y, the curves dd_curve(Y, 0) and
\* aa_curve(Y, 0) compute; DD_curve equals DD_base when dd_shift is 0 and
\* AA_curve equals AA_base when aa_shift is 0, so get_curve_data(0, 0) returns
\* both curves equal to their bases.
C12_ZeroShiftIsBase ==
    curve_data # None =>
      LET d == curve_data.data IN
        /\ \A k \in DOMAIN d.Y_range :
             /\ d.DD_base[k] = RSub(R(2, 1), RMul(R(5, 1000), d.Y_range[k]))
             /\ d.AA_base[k] = RAdd(R(8, 10), RMul(R(8, 1000), d.Y_range[k]))
        /\ curve_data.dd_shift = R(0, 1) => d.DD_curve = d.DD_base
        /\ curve_data.aa_shift = R(0, 1) => d.AA_curve = d.AA_base

\* get_curve_data(0, 0) has returned its NSamples samples
C12_Witness ==
    /\ curve_data # None
    /\ curve_data.dd_shift = R(0, 1)
    /\ curve_data.aa_shift = R(0, 1)
    /\ Len(curve_data.data.DD_curve) = NSamples
    /\ curve_data.data.DD_curve = curve_data.data.DD_base
    /\ curve_data.data.AA_curve = curve_data.data.AA_base

\* The sampled values ys fall (rise) strictly from each sample to the next,
\* hence to every later one
StrictlyDecreasing(ys) == \A k \in 1..(Len(ys) - 1) : RLess(ys[k + 1], ys[k])
StrictlyIncreasing(ys) == \A k \in 1..(Len(ys) - 1) : RLess(ys[k], ys[k + 1])

\* C13: for every shift the DD curve is strictly decreasing in output and the
\* AA curve strictly increasing: over the strictly increasing Y_range,
\* DD_curve and DD_base fall and AA_curve and AA_base rise from each sample
\* to the next; the same holds for the base DD and AA curves of
\* _generate_base_curves.
C13_CurvesMonotone ==
    /\ curve_data # None =>
         LET d == curve_data.data IN
           /\ StrictlyIncreasing(d.Y_range)
           /\ StrictlyDecreasing(d.DD_curve)
           /\ StrictlyDecreasing(d.DD_base)
           /\ StrictlyIncreasing(d.AA_curve)
           /\ StrictlyIncreasing(d.AA_base)
    /\ LET b == _generate_base_curves(<<>>).data IN
         \A k \in 1..(NSamples - 1) :
           /\ b.points_DD_pre[1][k] < b.points_DD_pre[1][k + 1]
           /\ b.points_DD_pre[2][k] > b.points_DD_pre[2][k + 1]
           /\ b.points_AA_pre[1][k] < b.points_AA_pre[1][k + 1]
           /\ b.points_AA_pre[2][k] < b.points_AA_pre[2][k + 1]

\* Curves have been returned for a DD curve shifted down and an AA curve
\* shifted up
C13_Witness ==
    /\ curve_data # None
    /\ RLess(curve_data.dd_shift, R(0, 1))
    /\ RLess(R(0, 1), curve_data.aa_shift)
    /\ curve_data.data.DD_curve # curve_data.data.DD_base
    /\ Len(curve_data.data.AA_curve) = NSamples

(***************************************************************************)
(* model.py: find_equilibrium called for two shift settings that differ in *)
(* one of the two shifts.                                                  *)
(***************************************************************************)
ShiftsInit == shifted = None

\* find_equilibrium(dd_1, aa) and find_equilibrium(dd_2, aa) are called.  The
\* method reads no state and writes none: the pair of calls is taken once,
\* from the initial state.
CompareDdShifts ==
    /\ UNCHANGED notShifts
    /\ shifted = None
    /\ \E dd_1 \in ShiftInputs, dd_2 \in ShiftInputs, aa \in ShiftInputs :
         shifted' = [dd_shift |-> <<dd_1, dd_2>>, aa_shift |-> <<aa, aa>>,
                     points |-> <<find_equilibrium(dd_1, aa), find_equilibrium(dd_2, aa)>>]

\* find_equilibrium(dd, aa_1) and find_equilibrium(dd, aa_2) are called
CompareAaShifts ==
    /\ UNCHANGED notShifts
    /\ shifted = None
    /\ \E dd \in ShiftInputs, aa_1 \in ShiftInputs, aa_2 \in ShiftInputs :
         shifted' = [dd_shift |-> <<dd, dd>>, aa_shift |-> <<aa_1, aa_2>>,
                     points |-> <<find_equilibrium(dd, aa_1), find_equilibrium(dd, aa_2)>>]

ShiftsNext == CompareDdShifts \/ CompareAaShifts

\* The outputs at which the curves are compared: 100 - 2*MaxSampleOffset,
\* ..., 98, 100, 102, ..., 100 + 2*MaxSampleOffset
MaxSampleOffset == 8

OutputSamples == {R(100 + 2 * k, 1) : k \in (0 - MaxSampleOffset)..MaxSampleOffset}

(***************************************************************************)
(* Shift claims (SpecShifts).                                              *)
(***************************************************************************)
\* C14: shift direction.  With aa_shift fixed, the larger dd_shift gives the
\* strictly larger equilibrium output, and wherever the two DD curves have the
\* same exchange rate the curve with the larger shift has the larger output.
\* With dd_shift fixed, the larger aa_shift gives the strictly larger
\* equilibrium exchange rate, and at every output the AA curve with the larger
\* shift has the larger exchange rate.
C14_ShiftDirection ==
    shifted # None =>
      LET dd_1 == shifted.dd_shift[1]
          dd_2 == shifted.dd_shift[2]
          aa_1 == shifted.aa_shift[1]
          aa_2 == shifted.aa_shift[2]
          p_1 == shifted.points[1]
          p_2 == shifted.points[2]
      IN /\ (aa_1 = aa_2 /\ RLess(dd_1, dd_2)) =>
              /\ RLess(p_1[1], p_2[1])
              /\ \A Y_1 \in OutputSamples, Y_2 \in OutputSamples :
                   dd_curve(Y_1, dd_1) = dd_curve(Y_2, dd_2) => RLess(Y_1, Y_2)
         /\ (dd_1 = dd_2 /\ RLess(aa_1, aa_2)) =>
              /\ RLess(p_1[2], p_2[2])
              /\ \A Y \in OutputSamples :
                   RLess(aa_curve(Y, aa_1), aa_curve(Y, aa_2))

\* Two calls with the same aa_shift and a larger second dd_shift have
\* returned, and the two DD curves pass through a common exchange rate at two
\* of the sampled outputs
C14_Witness ==
    /\ shifted # None
    /\ shifted.aa_shift[1] = shifted.aa_shift[2]
    /\ RLess(shifted.dd_shift[1], shifted.dd_shift[2])
    /\ RLess(shifted.points[1][1], shifted.points[2][1])
    /\ \E Y_1 \in OutputSamples, Y_2 \in OutputSamples :
         dd_curve(Y_1, shifted.dd_shift[1]) = dd_curve(Y_2, shifted.dd_shift[2])

(***************************************************************************)
(* solver.py: the legacy functions solve and solve_equilibrium, and        *)
(* parameters.py.  Numbers are exact fractions.  A call ends either with   *)
(* outcome "return" and a value, or with the name of the exception raised. *)
(***************************************************************************)
\* parameters.Parameters(alpha, beta, investment_intercept, investment_slope,
\* government, tax)
Parameters(alpha, beta, investment_intercept, investment_slope, government, tax) ==
    [alpha |-> alpha, beta |-> beta, investment_intercept |-> investment_intercept,
     investment_slope |-> investment_slope, government |-> government, tax |-> tax]

Return(value) == [outcome |-> "return", value |-> value]

Raise(exception) == [outcome |-> exception]

\* a / b on Python numbers
TrueDiv(a, b) == IF b.n = 0 THEN Raise("ZeroDivisionError") ELSE Return(RDiv(a, b))

SolveEquilibriumTaxSign(params, interest_rate) ==
    LET numerator ==
          RAdd(RAdd(RSub(RAdd(params.alpha, params.investment_intercept),
                         RMul(params.investment_slope, interest_rate)),
                    params.government),
               RMul(params.beta, params.tax))
        denominator == RSub(R(1, 1), params.beta)
    IN TrueDiv(numerator, denominator)
SolveEquilibriumGuarded(params, interest_rate) ==
    LET numerator ==
          RSub(RAdd(RSub(RAdd(params.alpha, params.investment_intercept),
                         RMul(params.investment_slope, interest_rate)),
                    params.government),
               RMul(params.beta, params.tax))
        denominator == RSub(R(1, 1), params.beta)
    IN IF denominator.n = 0 THEN Return(numerator) ELSE TrueDiv(numerator, denominator)
\* solve_equilibrium(params, interest_rate)
solve_equilibrium(params, interest_rate) ==
    LET numerator ==
          RSub(RAdd(RSub(RAdd(params.alpha, params.investment_intercept),
                         RMul(params.investment_slope, interest_rate)),
                    params.government),
               RMul(params.beta, params.tax))
        denominator == RSub(R(1, 1), params.beta)
    IN TrueDiv(numerator, denominator)

\* solve(params): return _generate_base_curves()
solve(params) ==
    LET g == _generate_base_curves(<<>>) IN Return(FrameView(g.data, g.heap))

\* The names the module src.model binds: its imports and its two classes
ModelModuleNames == {"np", "dataclass", "Dict", "Tuple", "List", "DDAAParameters", "DDAAModel"}

\* from <module> import <name>
FromImport(module_names, name) ==
    IF name \in module_names THEN Return(name) ELSE Raise("ImportError")

\* The parameter values tried: beta in tenths from 0 to MaxBetaTenths/10, the
\* interest rate and the output as integers, every other parameter either 0
\* or the value the tests use
MaxBetaTenths == 12

MaxRate == 3

BetaInputs == {R(k, 10) : k \in 0..MaxBetaTenths}

RateInputs == {R(k, 1) : k \in 0..MaxRate}

ParameterInputs ==
    {Parameters(R(alpha, 1), beta, R(investment_intercept, 1), R(investment_slope, 1),
                R(government, 1), R(tax, 1)) :
       alpha \in {0, 50}, beta \in BetaInputs, investment_intercept \in {40},
       investment_slope \in {0, 5}, government \in {0, 20}, tax \in {0, 10}}

\* The parameters of tests/test_solver.py, test_model.py and test_trajectory.py
TestParameters == Parameters(R(50, 1), R(6, 10), R(40, 1), R(5, 1), R(20, 1), R(10, 1))

LegacyInit == legacy = None

\* solve_equilibrium(params, interest_rate) is called.  The legacy functions
\* read no state and write none: each call is taken once, from the initial
\* state.
SolveEquilibriumCall ==
    /\ UNCHANGED notLegacy
    /\ legacy = None
    /\ \E params \in ParameterInputs, interest_rate \in RateInputs :
         legacy' = [fn |-> "solve_equilibrium", params |-> params,
                    interest_rate |-> interest_rate,
                    result |-> solve_equilibrium(params, interest_rate)]

\* data = solve(params)
SolveCall ==
    /\ UNCHANGED notLegacy
    /\ legacy = None
    /\ \E params \in ParameterInputs :
         legacy' = [fn |-> "solve", params |-> params, result |-> solve(params)]

\* from src.model import aggregate_demand; aggregate_demand(params, r, y)
AggregateDemandCall ==
    /\ UNCHANGED notLegacy
    /\ legacy = None
    /\ \E params \in ParameterInputs, r \in RateInputs, y \in {R(0, 1), R(100, 1)} :
         legacy' = [fn |-> "aggregate_demand", params |-> params, r |-> r, y |-> y,
                    result |-> FromImport(ModelModuleNames, "aggregate_demand")]

LegacyNext == SolveEquilibriumCall \/ SolveCall \/ AggregateDemandCall

(***************************************************************************)
(* Legacy claims (SpecLegacy).                                             *)
(***************************************************************************)
\* C15: for every parameter set with beta # 1, solve_equilibrium(params, r)
\* returns the income Y with Y * (1 - beta) = alpha + investment_intercept
\* - investment_slope*r + government - beta*tax; for the parameters of the
\* test (50, 0.6, 40, 5, 20, 10) and r = 2 it returns 235.
C15_SolveEquilibriumFormula ==
    (legacy # None /\ legacy.fn = "solve_equilibrium"
       /\ legacy.params.beta # R(1, 1)) =>
      LET q == legacy.params
          r == legacy.interest_rate
      IN /\ legacy.result.outcome = "return"
         /\ RMul(legacy.result.value, RSub(R(1, 1), q.beta)) =
              RSub(RAdd(RAdd(RAdd(q.alpha, q.investment_intercept), q.government),
                        RMul(R(0 - 1, 1), RMul(q.investment_slope, r))),
                   RMul(q.beta, q.tax))
         /\ (q = TestParameters /\ r = R(2, 1)) => legacy.result.value = R(235, 1)

\* The call of the test has returned
C15_Witness ==
    /\ legacy # None
    /\ legacy.fn = "solve_equilibrium"
    /\ legacy.params = TestParameters
    /\ legacy.interest_rate = R(2, 1)
    /\ legacy.result = Return(R(235, 1))

\* C16: solve_equilibrium with beta equal to 1 ends in an error, whatever the
\* other parameters and the interest rate are, and returns no income level.
C16_UnitBetaIsError ==
    (legacy # None /\ legacy.fn = "solve_equilibrium"
       /\ legacy.params.beta = R(1, 1)) =>
      /\ legacy.result.outcome # "return"
      /\ "value" \notin DOMAIN legacy.result

\* solve_equilibrium has been called with beta = 1 and a numerator that is
\* not zero, and has raised ZeroDivisionError
C16_Witness ==
    /\ legacy # None
    /\ legacy.fn = "solve_equilibrium"
    /\ legacy.params.beta = R(1, 1)
    /\ legacy.params.alpha = R(50, 1)
    /\ legacy.interest_rate = R(2, 1)
    /\ legacy.result = Raise("ZeroDivisionError")

\* C17: for every parameter set, solve(params) returns a record with a
\* 'trajectory_path' entry that is a list of at least 4 elements.
C17_SolveHasTrajectoryPath ==
    (legacy # None /\ legacy.fn = "solve") =>
      /\ legacy.result.outcome = "return"
      /\ "trajectory_path" \in DOMAIN legacy.result.value
      /\ Len(legacy.result.value.trajectory_path) >= 4

\* C18: the model module provides aggregate_demand(params, r, y), which returns
\* alpha + beta*(y - tax) + investment_intercept - investment_slope*r
\* + government for every parameter set, interest rate r and output y.
C18_AggregateDemandProvided ==
    (legacy # None /\ legacy.fn = "aggregate_demand") =>
      LET q == legacy.params IN
        /\ legacy.result.outcome = "return"
        /\ legacy.result.value =
             RAdd(RSub(RAdd(RAdd(q.alpha, RMul(q.beta, RSub(legacy.y, q.tax))),
                            q.investment_intercept),
                       RMul(q.investment_slope, legacy.r)),
                  q.government)

(***************************************************************************)
(* The Transition Interpolator, modelled from its contract (specification, *)
(* section 4.5).  A frame is a record; its numeric fields are scalars or   *)
(* arrays of exact fractions, every other field is text or a display flag. *)
(***************************************************************************)
NumericScalarFields == {"dd_shift", "aa_shift"}

NumericArrayFields == {"equilibrium_post", "points_DD_post"}

LerpOffByOne(source, target, i, K) ==
    LET t == R(i, K) IN
    RAdd(RMul(source, RSub(R(1, 1), t)), RMul(target, t))
\* source*(1 - t) + target*t with t = i/(K - 1)
Lerp(source, target, i, K) ==
    LET t == R(i, K - 1) IN
    RAdd(RMul(source, RSub(R(1, 1), t)), RMul(target, t))

\* The K frames from source to target, or InterpolationShapeMismatch when an
\* array field present in both has different sample counts.  Fields the two
\* frames do not share are dropped; text and flags keep the source's value at
\* index 0 and take the target's from index 1 on.
Interpolate(source, target, K) ==
    LET shared == DOMAIN source \cap DOMAIN target
        mismatch == \E f \in shared \cap NumericArrayFields :
                       Len(source[f]) # Len(target[f])
    IN IF mismatch THEN Raise("InterpolationShapeMismatch")
       ELSE Return(
         [n \in 1..K |->
            [f \in shared |->
               IF f \in NumericScalarFields
               THEN Lerp(source[f], target[f], n - 1, K)
               ELSE IF f \in NumericArrayFields
               THEN [j \in DOMAIN source[f] |->
                       Lerp(source[f][j], target[f][j], n - 1, K)]
               ELSE IF n = 1 THEN source[f] ELSE target[f]]])

\* The step counts tried: 2..MaxK
MaxK == 10

\* The frames tried: the plain frames, a frame with an aa_shift field the
\* plain frames lack, and frames with a curve of three and of two samples
PlainFrames ==
    {[title |-> l[1], show_shifts |-> l[2], dd_shift |-> R(d, 10),
      equilibrium_post |-> e] :
       l \in {<<"Initial Equilibrium", FALSE>>, <<"AA Curve Shifts", TRUE>>},
       d \in {0 - 1, 0, 1},
       e \in {<<R(100, 1), R(14, 10)>>, <<R(110, 1), R(15, 10)>>}}

FrameInputs ==
    PlainFrames
    \cup {[title |-> "New Equilibrium", show_shifts |-> TRUE, dd_shift |-> R(1, 10),
           aa_shift |-> R(2, 10), equilibrium_post |-> <<R(110, 1), R(15, 10)>>],
          [title |-> "Curve", dd_shift |-> R(0, 1),
           points_DD_post |-> <<R(18, 10), R(15, 10), R(12, 10)>>],
          [title |-> "Curve Shifted", dd_shift |-> R(1, 10),
           points_DD_post |-> <<R(19, 10), R(16, 10), R(13, 10)>>],
          [title |-> "Short Curve", dd_shift |-> R(1, 10),
           points_DD_post |-> <<R(19, 10), R(13, 10)>>]}

InterpInit == interp = None

\* The interpolator is asked for the K frames of one transition.  It reads no
\* state and writes none: the call is taken once, from the initial state.
InterpolateCall ==
    /\ UNCHANGED notInterp
    /\ interp = None
    /\ \E source \in FrameInputs, target \in FrameInputs, K \in 2..MaxK :
         interp' = [source |-> source, target |-> target, K |-> K,
                    result |-> Interpolate(source, target, K)]

InterpNext == InterpolateCall

(***************************************************************************)
(* Interpolator claims (SpecInterp).                                       *)
(***************************************************************************)
\* v lies between a and b
Between(v, a, b) ==
    \/ ~RLess(v, a) /\ ~RLess(b, v)
    \/ ~RLess(v, b) /\ ~RLess(a, v)

\* The value v at index i of K is the linear interpolation of s and t, stated
\* without division: v*(K - 1) = s*(K - 1 - i) + t*i
IsLerp(v, s, t, i, K) ==
    RMul(v, R(K - 1, 1)) = RAdd(RMul(s, R(K - 1 - i, 1)), RMul(t, R(i, 1)))

\* C20: for a source and a target frame whose shared arrays have equal sample
\* counts, the interpolator produces K frames (10 for K = 10); on every shared
\* numeric field frame 0 equals the source and frame K-1 equals the target,
\* and every value at index i is source*(1-t) + target*t with t = i/(K-1),
\* which lies between the source and the target value.
C20_InterpolationIsLinear ==
    (interp # None /\ interp.result.outcome = "return") =>
      LET fs == interp.result.value
          K == interp.K
          shared == DOMAIN interp.source \cap DOMAIN interp.target
      IN /\ Len(fs) = K
         /\ \A f \in shared \cap NumericScalarFields :
              /\ fs[1][f] = interp.source[f]
              /\ fs[K][f] = interp.target[f]
              /\ \A i \in 0..(K - 1) :
                   /\ IsLerp(fs[i + 1][f], interp.source[f], interp.target[f], i, K)
                   /\ Between(fs[i + 1][f], interp.source[f], interp.target[f])
         /\ \A f \in shared \cap NumericArrayFields :
              /\ fs[1][f] = interp.source[f]
              /\ fs[K][f] = interp.target[f]
              /\ \A i \in 0..(K - 1) :
                   \A j \in DOMAIN interp.source[f] :
                     /\ IsLerp(fs[i + 1][f][j], interp.source[f][j],
                               interp.target[f][j], i, K)
                     /\ Between(fs[i + 1][f][j], interp.source[f][j],
                                interp.target[f][j])

\* Ten frames have been produced between two frames that differ in a scalar
\* and in an array field, and the middle frames differ from both ends
C20_Witness ==
    /\ interp # None
    /\ interp.K = 10
    /\ interp.result.outcome = "return"
    /\ Len(interp.result.value) = 10
    /\ RLess(interp.target.dd_shift, interp.source.dd_shift)
    /\ "equilibrium_post" \in DOMAIN interp.source \cap DOMAIN interp.target
    /\ interp.source.equilibrium_post # interp.target.equilibrium_post
    /\ interp.result.value[5].dd_shift # interp.source.dd_shift
    /\ interp.result.value[5].dd_shift # interp.target.dd_shift

(***************************************************************************)
(* model.py: DDAAModel.simulate_shock (SpecShock).  Numbers are exact       *)
(* rationals; one action per iteration of the period loop.                 *)
(***************************************************************************)
\* The DDAAParameters defaults simulate_shock reads
DDAAParameters ==
    [initial_output |-> R(100, 1), initial_interest |-> R(2, 1),
     initial_exchange |-> R(15, 10)]

\* lst[-1]
Last(lst) == lst[Len(lst)]

\* The three lists one iteration appends to, for the shock types the function
\* documents; any other shock_type matches no branch and appends to none.
ShockBranch(shock_type, magnitude, t, r) ==
    IF shock_type = "monetary" THEN
        IF t = 1 THEN
            [r EXCEPT !.i = Append(r.i, RSub(Last(r.i), magnitude)),
                      !.aa_shift = Append(r.aa_shift, RMul(magnitude, R(1, 10))),
                      !.dd_shift = Append(r.dd_shift, R(0, 1))]
        ELSE IF t = 2 THEN
            [r EXCEPT !.i = Append(r.i, Last(r.i)),
                      !.aa_shift = Append(r.aa_shift, Last(r.aa_shift)),
                      !.dd_shift = Append(r.dd_shift, RMul(magnitude, R(5, 100)))]
        ELSE IF t >= 3 THEN
            [r EXCEPT !.i = Append(r.i, DDAAParameters.initial_interest),
                      !.aa_shift = Append(r.aa_shift, RMul(Last(r.aa_shift), R(8, 10))),
                      !.dd_shift = Append(r.dd_shift, Last(r.dd_shift))]
        ELSE r
    ELSE IF shock_type = "fiscal" THEN
        IF t = 1 THEN
            [r EXCEPT !.dd_shift = Append(r.dd_shift, RMul(magnitude, R(1, 10))),
                      !.aa_shift = Append(r.aa_shift, R(0, 1)),
                      !.i = Append(r.i, RAdd(Last(r.i), RMul(magnitude, R(5, 10))))]
        ELSE IF t >= 2 THEN
            [r EXCEPT !.dd_shift = Append(r.dd_shift, Last(r.dd_shift)),
                      !.aa_shift = Append(r.aa_shift,
                          RMul(RMul(RSub(R(0, 1), magnitude), R(5, 100)), R(t, 1))),
                      !.i = Append(r.i, Last(r.i))]
        ELSE r
    ELSE IF shock_type = "real" THEN
        IF t = 1 THEN
            [r EXCEPT !.i = Append(r.i, RSub(Last(r.i), RMul(magnitude, R(3, 10)))),
                      !.dd_shift = Append(r.dd_shift, RMul(magnitude, R(1, 10))),
                      !.aa_shift = Append(r.aa_shift, RMul(magnitude, R(5, 100)))]
        ELSE
            [r EXCEPT !.i = Append(r.i, Last(r.i)),
                      !.dd_shift = Append(r.dd_shift, Last(r.dd_shift)),
                      !.aa_shift = Append(r.aa_shift, Last(r.aa_shift))]
    ELSE r

\* One pass through the body of `for t in range(1, periods)`: the branch of
\* the shock type, then the equilibrium of the last shifts appended to Y and E
LoopBody(shock_type, magnitude, t, r) ==
    LET b == ShockBranch(shock_type, magnitude, t, r)
        e == find_equilibrium(Last(b.dd_shift), Last(b.aa_shift))
    IN [b EXCEPT !.Y = Append(b.Y, e[1]), !.E = Append(b.E, e[2])]

MaxMagnitude == 3

MaxPeriods == 6

\* 'monetary', 'fiscal', 'real', and a string that is none of them
ShockTypes == {"monetary", "fiscal", "real", "supply"}

MagnitudeInputs == {R(m, 1) : m \in (0 - MaxMagnitude)..MaxMagnitude}

PeriodInputs == 1..MaxPeriods

ShockInit ==
    /\ sk_pc = "idle"
    /\ sk_args = None
    /\ sk_t = 0
    /\ results = None

\* model.simulate_shock(shock_type, magnitude, periods) is called: `results`
\* is created and the loop is entered.  The function reads no state of the
\* model and writes none, so it is called once, from the initial state.
SimulateShockCall ==
    /\ UNCHANGED notShock
    /\ sk_pc = "idle"
    /\ \E shock_type \in ShockTypes, magnitude \in MagnitudeInputs,
          periods \in PeriodInputs :
         sk_args' = [shock_type |-> shock_type, magnitude |-> magnitude,
                     periods |-> periods]
    /\ results' = [Y |-> <<DDAAParameters.initial_output>>,
                   E |-> <<DDAAParameters.initial_exchange>>,
                   i |-> <<DDAAParameters.initial_interest>>,
                   dd_shift |-> <<R(0, 1)>>,
                   aa_shift |-> <<R(0, 1)>>]
    /\ sk_t' = 1
    /\ sk_pc' = "loop"

\* One iteration of the period loop
PeriodIteration ==
    /\ UNCHANGED notShock
    /\ sk_pc = "loop"
    /\ sk_t < sk_args.periods
    /\ results' = LoopBody(sk_args.shock_type, sk_args.magnitude, sk_t, results)
    /\ sk_t' = sk_t + 1
    /\ UNCHANGED <<sk_pc, sk_args>>

\* range(1, periods) is exhausted: return results
SimulateShockReturn ==
    /\ UNCHANGED notShock
    /\ sk_pc = "loop"
    /\ sk_t >= sk_args.periods
    /\ sk_pc' = "returned"
    /\ UNCHANGED <<sk_args, sk_t, results>>

ShockNext == SimulateShockCall \/ PeriodIteration \/ SimulateShockReturn

\* C26: for the three documented shock types, every magnitude and every
\* period t of the returned path, the initial one included, (Y[t], E[t]) is
\* find_equilibrium(dd_shift[t], aa_shift[t]).
C26_PathPointsFromShifts ==
    (sk_pc = "returned" /\ sk_args.shock_type \in {"monetary", "fiscal", "real"}) =>
      \A t \in 1..sk_args.periods :
        <<results.Y[t], results.E[t]>> =
          find_equilibrium(results.dd_shift[t], results.aa_shift[t])

\* C28: for every periods >= 1 and every shock_type, the five lists have the
\* same length after every iteration of the period loop, and length periods
\* when simulate_shock returns.
C28_SeriesAligned ==
    sk_pc \in {"loop", "returned"} =>
      /\ \A k \in {"E", "i", "dd_shift", "aa_shift"} :
           Len(results[k]) = Len(results.Y)
      /\ sk_pc = "returned" =>
           \A k \in {"Y", "E", "i", "dd_shift", "aa_shift"} :
             Len(results[k]) = sk_args.periods

(***************************************************************************)
(* Specifications.                                                         *)
(***************************************************************************)
Init ==
    /\ NavInit /\ FramesInit /\ EqInit /\ DiagInit
    /\ CurvesInit /\ ShiftsInit /\ LegacyInit /\ InterpInit /\ ShockInit

SpecNav == Init /\ [][NavNext]_vars

SpecFrames == Init /\ [][FramesNext]_vars

SpecEq == Init /\ [][EqNext]_vars

SpecDiagram == Init /\ [][DiagNext]_vars

SpecCurves == Init /\ [][CurvesNext]_vars

SpecShifts == Init /\ [][ShiftsNext]_vars

SpecLegacy == Init /\ [][LegacyNext]_vars

SpecInterp == Init /\ [][InterpNext]_vars

SpecShock == Init /\ [][ShockNext]_vars

====
